---------------------------- MODULE Spec2Model ----------------------------
(***************************************************************************)
(* Model of the Kokoro TTS relay (chtugha/coding.agent).                   *)
(*                                                                         *)
(* Spec       : src/kokoro_service.py, the registry-based service: the UDP *)
(*              registration listener, the dial threads it spawns, one     *)
(*              inbound handler per call, and the shared outbound_sockets  *)
(*              / chunk_counters maps guarded by outbound_sockets_lock.    *)
(***************************************************************************)
EXTENDS Integers, Sequences, FiniteSets, TLC

(* ------------------------------ bounds -------------------------------- *)
\* text frames one upstream connection may have synthesized
MaxTexts == 1
\* outbound TCP connections the downstream peers accept in total
MaxSockets == 2

(* ------------------------- program constants -------------------------- *)
SAMPLE_RATE == 24000

\* struct.unpack('!I', ...) yields an unsigned 32-bit number; it is kept as
\* its two big-endian 16-bit halves <<high, low>>, compared as the number is
U32(n) == <<n \div 65536, n % 65536>>
U32Gt(a, b) == a[1] > b[1] \/ (a[1] = b[1] /\ a[2] > b[2])
\* 0xFFFFFFFF
BYE_LENGTH == <<65535, 65535>>
\* 1024
IDENTITY_MAX == U32(1024)
\* 10 * 1024 * 1024
TEXT_MAX == U32(10 * 1024 * 1024)
U32Succ(a) == IF a[2] = 65535 THEN <<a[1] + 1, 0>> ELSE <<a[1], a[2] + 1>>

\* the calls of the model (the concurrency property of the spec: 101..104)
CallIds == {101, 102}
\* the dial threads a call's REGISTER datagrams can start: the first
\* REGISTER and one retransmission
DialIds == {1, 2}

NoSocket == 0
NoCounter == -1

Listener == <<"L", 0, 0>>
NoThread == <<"none", 0, 0>>
Handler(c) == <<"H", c, 0>>
Dialer(c, i) == <<"D", c, i>>
Handlers == {Handler(c) : c \in CallIds}
Dialers == {Dialer(c, i) : c \in CallIds, i \in DialIds}
Threads == Handlers \cup Dialers \cup {Listener}

VARIABLES
    registered_calls,   \* set of call ids with a registration record
    outbound_sockets,   \* call id -> socket id, NoSocket when absent
    chunk_counters,     \* call id -> counter, NoCounter when absent
    lock,               \* owner of outbound_sockets_lock, NoThread when free
    sockets,            \* sequence of outbound sockets ever connected
    pc,                 \* thread -> position
    loc,                \* thread -> locals of the running function
    lcall,              \* call id of the datagram the listener is handling
    udp,                \* datagrams received and to come, per call
    scenario,           \* what the upstream peers send: "any" or "text_bye"
    dial,               \* one timed run of the connector (SpecDial)
    stream,             \* one call of the streaming service (SpecStream)
    ghost               \* history: per call, what the handler has done

vars == <<registered_calls, outbound_sockets, chunk_counters, lock, sockets,
          pc, loc, lcall, udp, scenario, ghost, dial, stream>>

\* the parts of the state the registry-based service does not touch
aux == <<dial, stream>>
\* the state of the registry-based service
relay == <<registered_calls, outbound_sockets, chunk_counters, lock, sockets,
           pc, loc, lcall, udp, scenario, ghost>>

NoLocals == [s |-> NoSocket, chunk_id |-> 0, audio |-> 0, retry |-> FALSE]

ThreadCall(t) == IF t = Listener THEN lcall ELSE t[2]

\* 40 ms of audio at the pipeline's rate: the streaming service's frame size
subchunk_ms == 40
subchunk_size == (SAMPLE_RATE * subchunk_ms) \div 1000

\* what synthesize() hands back: None (-1), an empty array, or N samples
NoAudio == -1
SynthResults == {NoAudio, 0, subchunk_size + 1}

\* lengths an upstream peer may put into a text-frame header
HeaderLengths == {U32(0), U32(1), TEXT_MAX, U32Succ(TEXT_MAX), BYE_LENGTH}

\* one message of the upstream connection, as the handler's reads see it:
\* the 4-byte header arrives in full, short (peer closed) or the read raises
\* (connection reset); the same for the payload; the payload decodes as
\* UTF-8 or not; synthesize() returns samples for it
InboundFrames ==
    {[hdr |-> h, length |-> U32(0), body |-> "none", utf8 |-> TRUE, samples |-> NoAudio]
        : h \in {"short", "reset"}}
    \cup
    {[hdr |-> "full", length |-> l, body |-> b, utf8 |-> TRUE, samples |-> NoAudio]
        : l \in HeaderLengths, b \in {"short", "reset"}}
    \cup
    {[hdr |-> "full", length |-> l, body |-> "full", utf8 |-> FALSE, samples |-> NoAudio]
        : l \in HeaderLengths}
    \cup
    {[hdr |-> "full", length |-> l, body |-> "full", utf8 |-> TRUE, samples |-> n]
        : l \in HeaderLengths, n \in SynthResults}

\* the identity frame, seen the same way; a well-formed one carries the
\* call id of the connection
IdentityLengths(n) == {U32(0), U32(n), U32Succ(IDENTITY_MAX)}
IdentityFrames(n) ==
    {[hdr |-> h, length |-> U32(0), body |-> "none", utf8 |-> TRUE]
        : h \in {"short", "reset"}}
    \cup
    {[hdr |-> "full", length |-> l, body |-> b, utf8 |-> u]
        : l \in IdentityLengths(n), b \in {"full", "short", "reset"}, u \in BOOLEAN}

\* `inbound` is what the handler has written on the upstream connection
NoGhost == [ids |-> <<>>, reads |-> 0, synth |-> 0, first |-> "none",
            exit |-> "none", exit_sock |-> NoSocket, gave_up |-> FALSE,
            inbound |-> <<>>, hello |-> "none"]

DialIdle == [pc |-> "none"]
StreamIdle == [pc |-> "none"]

\* everything of the registry-based service at rest: no upstream connection,
\* no datagram to come
RelayIdle ==
    /\ registered_calls = {}
    /\ outbound_sockets = [c \in CallIds |-> NoSocket]
    /\ chunk_counters = [c \in CallIds |-> NoCounter]
    /\ lock = NoThread
    /\ sockets = <<>>
    /\ pc = [t \in Threads |-> IF t \in Handlers THEN "h_none" ELSE "idle"]
    /\ loc = [t \in Threads |-> NoLocals]
    /\ lcall = 0
    /\ udp = [reg |-> [c \in CallIds |-> 0], bye |-> [c \in CallIds |-> 0],
              max_reg |-> [c \in CallIds |-> 0], max_bye |-> [c \in CallIds |-> 0]]
    /\ scenario = "any"
    /\ ghost = [c \in CallIds |-> NoGhost]

\* the state after construction, with the upstream connections of `active`
\* accepted, `regs`/`byes` datagrams per call still to arrive and the
\* upstream peers following `script`
InitWith(active, regs, byes, script) ==
    /\ registered_calls = {}
    /\ outbound_sockets = [c \in CallIds |-> NoSocket]
    /\ chunk_counters = [c \in CallIds |-> NoCounter]
    /\ lock = NoThread
    /\ sockets = <<>>
    /\ pc = [t \in Threads |->
                IF t \in Handlers
                THEN (IF t[2] \in active THEN "h_hello" ELSE "h_none")
                ELSE IF t = Listener THEN "l_recv" ELSE "idle"]
    /\ loc = [t \in Threads |-> NoLocals]
    /\ lcall = 0
    /\ udp = [reg |-> [c \in CallIds |-> 0], bye |-> [c \in CallIds |-> 0],
              max_reg |-> [c \in CallIds |-> IF c \in active THEN regs ELSE 0],
              max_bye |-> [c \in CallIds |-> IF c \in active THEN byes ELSE 0]]
    /\ scenario = script
    /\ dial = DialIdle
    /\ stream = StreamIdle
    /\ ghost = [c \in CallIds |-> NoGhost]

\* one call, with duplicate REGISTERs and a BYE datagram
Init == InitWith({101}, Cardinality(DialIds), 1, "any")

(* --------------------------- socket objects --------------------------- *)
\* A socket object nothing refers to any more (neither the registry nor a
\* local variable of a running function) is deallocated, which closes the
\* connection without any marker having been written.
Reap(socks, reg, lc) ==
    [i \in DOMAIN socks |->
        IF /\ socks[i].st = "open"
           /\ \A c \in CallIds : reg[c] # i
           /\ \A t \in Threads : lc[t].s # i
        THEN [socks[i] EXCEPT !.st = "dropped"]
        ELSE socks[i]]

Write(socks, i, msg) == [socks EXCEPT ![i].wire = Append(@, msg)]
Close(socks, i) == [socks EXCEPT ![i].st = IF @ = "open" THEN "closed" ELSE @]

\* bytes written on an outbound connection, one record per sendall()
Msg(kind, length, rate, chunk, body) ==
    [kind |-> kind, length |-> length, rate |-> rate, chunk |-> chunk, body |-> body]

RECURSIVE DecimalLen(_)
DecimalLen(n) == IF n < 10 THEN 1 ELSE 1 + DecimalLen(n \div 10)

\* HELLO(call_id): struct.pack('!I', len(call_id_bytes)) then the bytes
HelloLength(c) == Msg("LEN4", DecimalLen(c), 0, 0, 0)
HelloBody(c) == Msg("BODY", DecimalLen(c), 0, 0, c)
\* the header with the number of samples where the number of bytes belongs
AudioHeaderSampleCount(n, rate, chunk) == Msg("HDR12", n, rate, chunk, 0)
\* struct.pack('!III', len(audio_bytes), sample_rate, chunk_id)
AudioHeader(n, rate, chunk) == Msg("HDR12", 4 * n, rate, chunk, 0)
AudioBytes(n) == Msg("PCM", 4 * n, 0, 0, n)
\* struct.pack('!III', 0, 0, 0)
ByeMarker == Msg("HDR12", 0, 0, 0, 0)

\* a socket handed to the registry with nothing written on it
NewSocketWithoutHello(c, t) ==
    [call |-> c, by |-> t, st |-> "open", wire |-> <<>>]

\* a connected socket on which HELLO has been sent; `by` is the thread that dialed
NewSocket(c, t) ==
    [call |-> c, by |-> t, st |-> "open", wire |-> <<HelloLength(c), HelloBody(c)>>]

\* a socket that connected and on which the second sendall of HELLO raised:
\* the length went out, the call id did not, the except clause has closed it
FailedSocket(c, t) ==
    [call |-> c, by |-> t, st |-> "closed", wire |-> <<HelloLength(c)>>]

(* --------------------- connect_to_outbound_processor ------------------ *)
\* where a thread goes when connect_to_outbound_processor returns `ok`
AfterConnect(t, ok) ==
    IF t \in Dialers THEN [pc |-> "done", loc |-> NoLocals]
    ELSE IF ok THEN [pc |-> "send_lookup",
                     loc |-> [loc[t] EXCEPT !.s = NoSocket, !.retry = TRUE]]
    ELSE [pc |-> "h_recv", loc |-> NoLocals]

ConnGhost(c, ok) ==
    IF ok THEN ghost ELSE [ghost EXCEPT ![c].gave_up = TRUE]

\* with self.outbound_sockets_lock: if call_id in self.outbound_sockets: return True
ConnCheckStep(t, lockAfter) ==
    /\ pc[t] = "conn_check"
    /\ lock = NoThread
    /\ LET c == ThreadCall(t)
           r == AfterConnect(t, TRUE)
       IN  IF outbound_sockets[c] # NoSocket
           THEN /\ pc' = [pc EXCEPT ![t] = r.pc]
                /\ loc' = [loc EXCEPT ![t] = r.loc]
                /\ lock' = NoThread
           ELSE /\ pc' = [pc EXCEPT ![t] = "conn_dial"]
                /\ loc' = loc
                /\ lock' = lockAfter
    /\ UNCHANGED <<aux, registered_calls, outbound_sockets, chunk_counters, sockets,
                   lcall, udp, scenario, ghost>>

ConnCheckHoldingLock(t) == ConnCheckStep(t, t)

\* the connector without its first check: it dials whatever the registry holds
ConnCheckAlwaysDials(t) ==
    /\ pc[t] = "conn_check"
    /\ lock = NoThread
    /\ pc' = [pc EXCEPT ![t] = "conn_dial"]
    /\ UNCHANGED <<aux, registered_calls, outbound_sockets, chunk_counters, sockets,
                   lock, loc, lcall, udp, scenario, ghost>>

ConnCheck(t) == ConnCheckStep(t, NoThread)

\* the attempt loop: some attempt 1..max_attempts connects and sends HELLO
\* (the new socket is then a local of the function), or an attempt connects
\* and fails while sending HELLO (the socket is closed, the loop goes on),
\* or all of them fail
ConnDial(t) ==
    /\ pc[t] = "conn_dial"
    /\ LET c == ThreadCall(t) IN
       \/ /\ Len(sockets) < MaxSockets
          /\ sockets' = Append(sockets, NewSocket(c, t))
          /\ loc' = [loc EXCEPT ![t].s = Len(sockets) + 1]
          /\ pc' = [pc EXCEPT ![t] = "conn_install"]
          /\ ghost' = ghost
       \/ /\ Len(sockets) < MaxSockets
          /\ sockets' = Append(sockets, FailedSocket(c, t))
          /\ UNCHANGED <<pc, loc, ghost>>
       \/ /\ LET r == AfterConnect(t, FALSE) IN
             /\ pc' = [pc EXCEPT ![t] = r.pc]
             /\ loc' = [loc EXCEPT ![t] = r.loc]
          /\ ghost' = ConnGhost(c, FALSE)
          /\ sockets' = sockets
    /\ UNCHANGED <<aux, registered_calls, outbound_sockets, chunk_counters, lock,
                   lcall, udp, scenario>>

\* with self.outbound_sockets_lock: outbound_sockets[call_id] = s; chunk_counters[call_id] = 0
ConnInstall(t) ==
    /\ pc[t] = "conn_install"
    /\ lock = NoThread
    /\ LET c == ThreadCall(t)
           r == AfterConnect(t, TRUE)
           reg == [outbound_sockets EXCEPT ![c] = loc[t].s]
           lc == [loc EXCEPT ![t] = r.loc]
       IN  /\ outbound_sockets' = reg
           /\ chunk_counters' = [chunk_counters EXCEPT ![c] = 0]
           /\ pc' = [pc EXCEPT ![t] = r.pc]
           /\ loc' = lc
           /\ sockets' = Reap(sockets, reg, lc)
    /\ UNCHANGED <<aux, registered_calls, lock, lcall, udp, scenario, ghost>>

(* ------------------------ send_audio_to_outbound ---------------------- *)
\* where the handler goes when send_audio_to_outbound returns `ok`:
\* on the first failure it reconnects and retries once (handle_client)
AfterSend(t, ok) ==
    IF ok \/ loc[t].retry THEN [pc |-> "h_recv", loc |-> NoLocals]
    ELSE [pc |-> "conn_check", loc |-> [loc[t] EXCEPT !.s = NoSocket, !.chunk_id = 0]]

\* with the lock: look the socket up, increment and read the chunk counter
SendLookup(t) ==
    /\ pc[t] = "send_lookup"
    /\ lock = NoThread
    /\ LET c == ThreadCall(t) IN
       IF outbound_sockets[c] = NoSocket
       THEN LET r == AfterSend(t, FALSE) IN
            /\ pc' = [pc EXCEPT ![t] = r.pc]
            /\ loc' = [loc EXCEPT ![t] = r.loc]
            /\ chunk_counters' = chunk_counters
       ELSE /\ chunk_counters' = [chunk_counters EXCEPT ![c] = @ + 1]
            /\ loc' = [loc EXCEPT ![t].s = outbound_sockets[c],
                                  ![t].chunk_id = chunk_counters[c] + 1]
            /\ pc' = [pc EXCEPT ![t] = "send_header"]
    /\ UNCHANGED <<aux, registered_calls, outbound_sockets, lock, sockets, lcall,
                   udp, scenario, ghost>>

\* s.sendall(header): raises when the socket was closed or the peer is gone
SendHeader(t) ==
    /\ pc[t] = "send_header"
    /\ LET c == ThreadCall(t)
           i == loc[t].s
       IN  \/ /\ sockets[i].st = "open"
              /\ sockets' = Write(sockets, i,
                                  AudioHeader(loc[t].audio, SAMPLE_RATE, loc[t].chunk_id))
              /\ ghost' = [ghost EXCEPT ![c].ids = Append(@, loc[t].chunk_id)]
              /\ pc' = [pc EXCEPT ![t] = "send_bytes"]
           \/ /\ pc' = [pc EXCEPT ![t] = "send_evict"]
              /\ UNCHANGED <<sockets, ghost>>
    /\ UNCHANGED <<aux, registered_calls, outbound_sockets, chunk_counters, lock,
                   loc, lcall, udp, scenario>>

\* s.sendall(audio_bytes); return True
SendBytes(t) ==
    /\ pc[t] = "send_bytes"
    /\ LET i == loc[t].s IN
       \/ /\ sockets[i].st = "open"
          /\ LET r == AfterSend(t, TRUE)
                 lc == [loc EXCEPT ![t] = r.loc]
             IN  /\ pc' = [pc EXCEPT ![t] = r.pc]
                 /\ loc' = lc
                 /\ sockets' = Reap(Write(sockets, i, AudioBytes(loc[t].audio)),
                                    outbound_sockets, lc)
       \/ /\ pc' = [pc EXCEPT ![t] = "send_evict"]
          /\ UNCHANGED <<sockets, loc>>
    /\ UNCHANGED <<aux, registered_calls, outbound_sockets, chunk_counters, lock,
                   lcall, udp, scenario, ghost>>

\* the except branch with the del forgotten: the registry keeps the closed socket
SendEvictKeepsEntry(t) ==
    /\ pc[t] = "send_evict"
    /\ lock = NoThread
    /\ LET c == ThreadCall(t)
           r == AfterSend(t, FALSE)
           lc == [loc EXCEPT ![t] = r.loc]
           closed == IF outbound_sockets[c] # NoSocket
                     THEN Close(sockets, outbound_sockets[c]) ELSE sockets
       IN  /\ sockets' = Reap(closed, outbound_sockets, lc)
           /\ pc' = [pc EXCEPT ![t] = r.pc]
           /\ loc' = lc
    /\ UNCHANGED <<aux, registered_calls, outbound_sockets, chunk_counters, lock,
                   lcall, udp, scenario, ghost>>

\* except: with the lock, close and delete whatever socket the registry holds
SendEvict(t) ==
    /\ pc[t] = "send_evict"
    /\ lock = NoThread
    /\ LET c == ThreadCall(t)
           r == AfterSend(t, FALSE)
           lc == [loc EXCEPT ![t] = r.loc]
           reg == [outbound_sockets EXCEPT ![c] = NoSocket]
           closed == IF outbound_sockets[c] # NoSocket
                     THEN Close(sockets, outbound_sockets[c]) ELSE sockets
       IN  /\ outbound_sockets' = reg
           /\ sockets' = Reap(closed, reg, lc)
           /\ pc' = [pc EXCEPT ![t] = r.pc]
           /\ loc' = lc
    /\ UNCHANGED <<aux, registered_calls, chunk_counters, lock, lcall, udp, scenario, ghost>>

(* ----------------------- close_outbound_connection -------------------- *)
\* where a thread goes when close_outbound_connection returns
AfterClose(t) == IF t = Listener THEN "l_recv" ELSE "h_done"

\* with self.outbound_sockets_lock: if call_id in self.outbound_sockets
CloseAcquire(t) ==
    /\ pc[t] = "close_acquire"
    /\ lock = NoThread
    /\ LET c == ThreadCall(t) IN
       IF outbound_sockets[c] = NoSocket
       THEN /\ pc' = [pc EXCEPT ![t] = AfterClose(t)]
            /\ lock' = NoThread
       ELSE /\ pc' = [pc EXCEPT ![t] = "close_send"]
            /\ lock' = t
    /\ UNCHANGED <<aux, registered_calls, outbound_sockets, chunk_counters, sockets,
                   loc, lcall, udp, scenario, ghost>>

\* the same teardown with the marker forgotten: close() and del only
CloseWithoutMarker(t) ==
    /\ pc[t] = "close_send"
    /\ lock = t
    /\ LET c == ThreadCall(t)
           i == outbound_sockets[c]
           reg == [outbound_sockets EXCEPT ![c] = NoSocket]
       IN  /\ sockets' = Reap(Close(sockets, i), reg, loc)
           /\ outbound_sockets' = reg
    /\ pc' = [pc EXCEPT ![t] = AfterClose(t)]
    /\ lock' = NoThread
    /\ UNCHANGED <<aux, registered_calls, chunk_counters, loc, lcall, udp, scenario, ghost>>

\* the same teardown with the del forgotten: the entry outlives the close
CloseSendKeepsEntry(t) ==
    /\ pc[t] = "close_send"
    /\ lock = t
    /\ LET i == outbound_sockets[ThreadCall(t)] IN
       \/ /\ sockets[i].st = "open"
          /\ sockets' = Close(Write(sockets, i, ByeMarker), i)
       \/ sockets' = sockets
    /\ pc' = [pc EXCEPT ![t] = AfterClose(t)]
    /\ lock' = NoThread
    /\ UNCHANGED <<aux, registered_calls, outbound_sockets, chunk_counters, loc,
                   lcall, udp, scenario, ghost>>

\* still holding the lock: sendall(bye) and close() in one try (a failing
\* sendall skips the close), then del outbound_sockets[call_id]
CloseSend(t) ==
    /\ pc[t] = "close_send"
    /\ lock = t
    /\ LET c == ThreadCall(t)
           i == outbound_sockets[c]
           reg == [outbound_sockets EXCEPT ![c] = NoSocket]
       IN  /\ \/ /\ sockets[i].st = "open"
                 /\ sockets' = Reap(Close(Write(sockets, i, ByeMarker), i), reg, loc)
              \/ sockets' = Reap(sockets, reg, loc)
           /\ outbound_sockets' = reg
    /\ pc' = [pc EXCEPT ![t] = AfterClose(t)]
    /\ lock' = NoThread
    /\ UNCHANGED <<aux, registered_calls, chunk_counters, loc, lcall, udp, scenario, ghost>>

(* ----------------------------- handle_client -------------------------- *)
\* HELLO: recv(4), the length check, recv(length), decode. Every early
\* return and every exception ends in the finally block, which closes the
\* upstream socket.
\* the identity checks without the upper limit on the length
HelloAcceptedNoLimit(f) ==
    /\ f.hdr = "full"
    /\ f.length # U32(0)
    /\ f.body = "full"
    /\ f.utf8

HelloAccepted(f) ==
    /\ f.hdr = "full"
    /\ ~(f.length = U32(0) \/ U32Gt(f.length, IDENTITY_MAX))
    /\ f.body = "full"
    /\ f.utf8

\* the test client: the identity, one text, then the 0xFFFFFFFF header
ScriptedIdentity(n) ==
    {[hdr |-> "full", length |-> U32(n), body |-> "full", utf8 |-> TRUE]}
ScriptedFrames(sent) ==
    IF sent = 0
    THEN {[hdr |-> "full", length |-> U32(1), body |-> "full", utf8 |-> TRUE,
           samples |-> subchunk_size + 1]}
    ELSE {[hdr |-> "full", length |-> BYE_LENGTH, body |-> "full", utf8 |-> TRUE,
           samples |-> NoAudio]}

\* the Piper test client: the identity, one text, then the text "BYE" as a
\* framed message of length 3, then it closes the connection
FramedByeFrames(sent) ==
    IF sent = 0
    THEN {[hdr |-> "full", length |-> U32(1), body |-> "full", utf8 |-> TRUE,
           samples |-> subchunk_size + 1, text |-> "t"]}
    ELSE IF sent = 1
    THEN {[hdr |-> "full", length |-> U32(3), body |-> "full", utf8 |-> TRUE,
           samples |-> n, text |-> "BYE"] : n \in SynthResults}
    ELSE {[hdr |-> "short", length |-> U32(0), body |-> "none", utf8 |-> TRUE,
           samples |-> NoAudio, text |-> ""]}

\* history only: what the identity frame was
HelloKind(f) ==
    IF f.hdr # "full" THEN "incomplete"
    ELSE IF f.length = U32(0) \/ U32Gt(f.length, IDENTITY_MAX) THEN "bad_length"
    ELSE IF f.body # "full" THEN "incomplete"
    ELSE IF f.utf8 THEN "identity" ELSE "undecodable"

HandleHello(t) ==
    /\ pc[t] = "h_hello"
    /\ \E f \in (IF scenario = "any"
                 THEN IdentityFrames(DecimalLen(ThreadCall(t)))
                 ELSE ScriptedIdentity(DecimalLen(ThreadCall(t)))) :
         /\ pc' = [pc EXCEPT ![t] = IF HelloAccepted(f) THEN "h_recv" ELSE "h_done"]
         /\ ghost' = [ghost EXCEPT ![ThreadCall(t)].hello = HelloKind(f)]
    /\ UNCHANGED <<aux, registered_calls, outbound_sockets, chunk_counters, lock,
                   sockets, loc, lcall, udp, scenario>>

\* what one pass of the while loop does with the next upstream message, up
\* to and including synthesize():
\*   "raise"  an exception leaves the try block (the except clause only logs)
\*   "break"  the loop is left, close_outbound_connection follows
\*   "audio"  synthesize() returned samples, send_audio_to_outbound follows
\*   "next"   nothing to send, the loop reads the next message
\* the same loop without the end-of-call and the upper length check: every
\* non-zero length is taken for a text
FrameOutcomeNoSentinel(f) ==
    IF f.hdr = "reset" THEN [to |-> "raise", exit |-> "reset", reads |-> 0, synth |-> 0]
    ELSE IF f.hdr = "short" THEN [to |-> "break", exit |-> "disconnect", reads |-> 0, synth |-> 0]
    ELSE IF f.length = U32(0)
         THEN [to |-> "break", exit |-> "violation", reads |-> 0, synth |-> 0]
    ELSE IF f.body = "reset" THEN [to |-> "raise", exit |-> "reset", reads |-> 1, synth |-> 0]
    ELSE IF f.body = "short" THEN [to |-> "break", exit |-> "disconnect", reads |-> 1, synth |-> 0]
    ELSE IF ~f.utf8 THEN [to |-> "raise", exit |-> "decode", reads |-> 1, synth |-> 0]
    ELSE IF f.samples # NoAudio /\ f.samples > 0
         THEN [to |-> "audio", exit |-> "none", reads |-> 1, synth |-> 1]
    ELSE [to |-> "next", exit |-> "none", reads |-> 1, synth |-> 1]

\* the same loop with a framed "BYE" taken for the end of the call
FrameOutcomeFramedBye(f) ==
    IF f.hdr = "full" /\ f.body = "full" /\ f.text = "BYE"
    THEN [to |-> "break", exit |-> "sentinel", reads |-> 1, synth |-> 0]
    ELSE FrameOutcomeNoSentinel(f)

FrameOutcome(f) ==
    IF f.hdr = "reset" THEN [to |-> "raise", exit |-> "reset", reads |-> 0, synth |-> 0]
    ELSE IF f.hdr = "short" THEN [to |-> "break", exit |-> "disconnect", reads |-> 0, synth |-> 0]
    ELSE IF f.length = BYE_LENGTH THEN [to |-> "break", exit |-> "sentinel", reads |-> 0, synth |-> 0]
    ELSE IF f.length = U32(0) \/ U32Gt(f.length, TEXT_MAX)
         THEN [to |-> "break", exit |-> "violation", reads |-> 0, synth |-> 0]
    ELSE IF f.body = "reset" THEN [to |-> "raise", exit |-> "reset", reads |-> 1, synth |-> 0]
    ELSE IF f.body = "short" THEN [to |-> "break", exit |-> "disconnect", reads |-> 1, synth |-> 0]
    ELSE IF ~f.utf8 THEN [to |-> "raise", exit |-> "decode", reads |-> 1, synth |-> 0]
    ELSE IF f.samples # NoAudio /\ f.samples > 0
         THEN [to |-> "audio", exit |-> "none", reads |-> 1, synth |-> 1]
    ELSE [to |-> "next", exit |-> "none", reads |-> 1, synth |-> 1]

\* history only: is the message an end-of-call header (length 0xFFFFFFFF),
\* or a header with a length of 0 or above 10 MiB?
FirstKind(f) ==
    IF f.hdr # "full" THEN "other"
    ELSE IF f.length = BYE_LENGTH THEN "sentinel"
    ELSE IF f.length = U32(0) \/ U32Gt(f.length, TEXT_MAX) THEN "bad_length"
    ELSE "other"

HandleRecv(t) ==
    /\ pc[t] = "h_recv"
    /\ \E f \in (CASE scenario = "any" -> InboundFrames
                   [] scenario = "text_bye" -> ScriptedFrames(ghost[ThreadCall(t)].synth)
                   [] OTHER -> FramedByeFrames(ghost[ThreadCall(t)].reads)) :
         LET c == ThreadCall(t)
             o == FrameOutcome(f)
             g == ghost[c]
         IN  /\ scenario = "any" => g.synth + o.synth <= MaxTexts
             /\ ghost' = [ghost EXCEPT ![c] =
                    [g EXCEPT !.reads = @ + o.reads,
                              !.synth = @ + o.synth,
                              !.first = IF @ # "none" THEN @ ELSE FirstKind(f),
                              !.exit = o.exit,
                              !.exit_sock = IF o.exit = "none" THEN NoSocket
                                            ELSE outbound_sockets[c]]]
             /\ pc' = [pc EXCEPT ![t] =
                    CASE o.to = "raise" -> "h_done"
                      [] o.to = "break" -> "close_acquire"
                      [] o.to = "audio" -> "send_lookup"
                      [] OTHER -> "h_recv"]
             /\ loc' = [loc EXCEPT ![t] =
                    IF o.to = "audio" THEN [NoLocals EXCEPT !.audio = f.samples]
                    ELSE NoLocals]
    /\ UNCHANGED <<aux, registered_calls, outbound_sockets, chunk_counters, lock,
                   sockets, lcall, udp, scenario>>

(* ---------------------- registration_listener_thread ------------------ *)
\* "REGISTER:<call_id>": record the call, start a thread that runs
\* connect_to_outbound_processor
ListenerRegister ==
    /\ pc[Listener] = "l_recv"
    /\ \E c \in CallIds :
         /\ udp.reg[c] < udp.max_reg[c]
         /\ udp' = [udp EXCEPT !.reg[c] = @ + 1]
         /\ registered_calls' = registered_calls \cup {c}
         /\ pc' = [pc EXCEPT ![Dialer(c, udp.reg[c] + 1)] = "conn_check"]
    /\ UNCHANGED <<aux, outbound_sockets, chunk_counters, lock, sockets, loc, lcall,
                   scenario, ghost>>

\* "BYE:<call_id>": drop the record, then close_outbound_connection(call_id)
ListenerBye ==
    /\ pc[Listener] = "l_recv"
    /\ \E c \in CallIds :
         /\ udp.bye[c] < udp.max_bye[c]
         /\ udp' = [udp EXCEPT !.bye[c] = @ + 1]
         /\ registered_calls' = registered_calls \ {c}
         /\ lcall' = c
         /\ pc' = [pc EXCEPT ![Listener] = "close_acquire"]
    /\ UNCHANGED <<aux, outbound_sockets, chunk_counters, lock, sockets, loc,
                   scenario, ghost>>

ThreadStep(t) ==
        \/ ConnCheck(t)
        \/ ConnDial(t)
        \/ ConnInstall(t)
        \/ SendLookup(t)
        \/ SendHeader(t)
        \/ SendBytes(t)
        \/ SendEvict(t)
        \/ CloseAcquire(t)
        \/ CloseSend(t)
        \/ HandleHello(t)
        \/ HandleRecv(t)

Next ==
    \/ ListenerRegister
    \/ ListenerBye
    \/ \E t \in Threads : ThreadStep(t)

Spec == Init /\ [][Next]_vars

\* one call with a single REGISTER and a BYE datagram
InitCall == InitWith({101}, 1, 1, "any")

SpecCall == InitCall /\ [][Next]_vars

\* the concurrency scenario: every call is registered once and its upstream
\* peer sends the identity, one text and the end-of-call header; no BYE
\* datagram arrives
InitCalls == InitWith(CallIds, 1, 0, "text_bye")

NextCalls ==
    \/ ListenerRegister
    \/ \E t \in Threads : ThreadStep(t)

SpecCalls == InitCalls /\ [][NextCalls]_vars

\* the Piper test scenario: one registered call whose upstream peer sends
\* the identity, one text and a framed "BYE", and then disconnects
InitFramedBye == InitWith({101}, 1, 0, "text_framed_bye")

SpecFramedBye == InitFramedBye /\ [][NextCalls]_vars

\* duplicate REGISTERs around one scripted call: the upstream peer sends
\* the identity, one text and the end-of-call header, the downstream peer
\* a REGISTER, its retransmission and a BYE, in any order and at any time
InitRegisters == InitWith({101}, Cardinality(DialIds), 1, "text_bye")

SpecRegisters == InitRegisters /\ [][Next]_vars

(* ================ the connector's retry schedule, timed ================ *)
(* One invocation of the connector with a clock that the sleeps advance    *)
(* (a refused connect on the loopback interface returns at once).          *)
(*   "outbound": connect_to_outbound_processor of src/kokoro_service.py    *)
(*   "audio"   : connect_to_audio_processor of src/bin/kokoro_service.py   *)
(* The peer starts accepting connections peer_up_at ms after the start.    *)

\* the latest moment the peer starts accepting, in steps of 100 ms
MaxPeerDelay == 70

max_attempts == 10

\* sleep_ms = 200 if attempt <= 5 else 1000, with the off-by-one a slip makes
sleep_ms_fast_until_4(attempt) == IF attempt < 5 THEN 200 ELSE 1000

sleep_ms(attempt) == IF attempt <= 5 THEN 200 ELSE 1000

\* for attempt in range(1, max_attempts + 1), with the loop one too long
last_attempt_plus_one(attempt) == attempt = max_attempts + 1

last_attempt(attempt) == attempt = max_attempts

InitDial ==
    /\ RelayIdle
    /\ stream = StreamIdle
    /\ \E v \in {"outbound", "audio"}, r \in BOOLEAN, k \in 0..MaxPeerDelay :
         /\ v = "outbound" => r
         /\ dial = [pc |-> "attempt", variant |-> v, registered |-> r,
                    peer_up_at |-> k * 100, attempt |-> 1, clock |-> 0,
                    tries |-> <<>>, waits |-> <<>>, result |-> "none"]

\* one pass of the loop body up to the connect: the audio variant first looks
\* the call up in registered_calls and does not dial an unregistered call
DialAttempt ==
    /\ dial.pc = "attempt"
    /\ LET dials == dial.registered
           ok == dials /\ dial.clock >= dial.peer_up_at
           tried == IF dials THEN Append(dial.tries, dial.clock) ELSE dial.tries
       IN  dial' = IF ok
                   THEN [dial EXCEPT !.pc = "done", !.result = "connected", !.tries = tried]
                   ELSE IF dial.variant = "audio" /\ last_attempt(dial.attempt)
                   THEN [dial EXCEPT !.pc = "done", !.result = "failed", !.tries = tried]
                   ELSE [dial EXCEPT !.pc = "sleep", !.tries = tried]
    /\ UNCHANGED <<relay, stream>>

\* time.sleep after a failed attempt, then the next attempt or the failure
DialSleep ==
    /\ dial.pc = "sleep"
    /\ LET slept == [dial EXCEPT !.clock = @ + sleep_ms(dial.attempt),
                                 !.waits = Append(@, sleep_ms(dial.attempt))]
       IN  dial' = IF last_attempt(dial.attempt)
                   THEN [slept EXCEPT !.pc = "done", !.result = "failed"]
                   ELSE [slept EXCEPT !.pc = "attempt", !.attempt = @ + 1]
    /\ UNCHANGED <<relay, stream>>

NextDial == DialAttempt \/ DialSleep

SpecDial == InitDial /\ [][NextDial]_vars

(* ============ the streaming service, src/bin/kokoro_service.py ========= *)
(* One upstream connection of handle_client: the identity, the rendezvous  *)
(* with the outbound processor, the text loop, the pipeline's results cut  *)
(* into 40 ms frames, and the finally block.                               *)

\* results with audio the pipeline yields over one connection
MaxBuffers == 2
\* REGISTER rounds that time out before the outbound processor connects
MaxRegisterRounds == 2
\* the longest buffer a result carries: two full frames and one sample
MaxSamples == 1921

\* the float32 samples of a result of n samples, as 32-bit patterns that
\* differ from sample to sample in every byte position
SampleAt(k) == k * 65537 + (k % 7) * 16777216
Buffer(n) == [k \in 1..n |-> SampleAt(k)]

\* ndarray.tobytes(): four bytes per sample, least significant first
ByteOf(v, j) ==
    CASE j = 0 -> v % 256
      [] j = 1 -> (v \div 256) % 256
      [] j = 2 -> (v \div 65536) % 256
      [] OTHER -> (v \div 16777216) % 256
tobytes(frame) ==
    [j \in 1..(4 * Len(frame)) |-> ByteOf(frame[((j - 1) \div 4) + 1], (j - 1) % 4)]

\* audio[i:i+subchunk_size], with a window one sample too long
SliceOverlapping(audio, i) ==
    SubSeq(audio, i + 1, IF i + subchunk_size + 1 < Len(audio)
                         THEN i + subchunk_size + 1 ELSE Len(audio))

\* audio[i:i+subchunk_size]
Slice(audio, i) ==
    SubSeq(audio, i + 1, IF i + subchunk_size < Len(audio)
                         THEN i + subchunk_size ELSE Len(audio))

\* the lengths of the results in the connection-level model
ResultLengths == {0, 1, subchunk_size, subchunk_size + 1}

StreamStart ==
    [pc |-> "hello", audio_socket |-> "none", registers |-> 0, chunk_id |-> 0,
     n |-> 0, i |-> 0, header |-> <<>>, texts |-> 0, buffers |-> 0,
     ids |-> <<>>, frames |-> <<>>, complete |-> FALSE, marker |-> "none",
     first |-> "none", reads |-> 0, exit |-> "none", inbound |-> <<>>,
     peer_hello |-> "none", client_socket |-> "none"]

InitStream ==
    /\ RelayIdle
    /\ dial = DialIdle
    /\ stream = StreamStart

\* lines 286-301: the identity frame; `return` and exceptions end in finally
StreamHello ==
    /\ stream.pc = "hello"
    /\ \E f \in IdentityFrames(3) :
         stream' = [stream EXCEPT !.pc = IF HelloAccepted(f) THEN "accept" ELSE "finally"]
    /\ UNCHANGED <<relay, dial>>

\* _accept_outbound_after_register: REGISTER sent, accept() timed out, sleep
StreamAcceptTimeout ==
    /\ stream.pc = "accept"
    /\ stream.registers < MaxRegisterRounds
    /\ stream' = [stream EXCEPT !.registers = @ + 1]
    /\ UNCHANGED <<relay, dial>>

\* lines 197-212: the first framed message of the accepted connection, as
\* the function reads it. recv raising and a body that does not decode
\* leave the function by an exception, without close()
PeerHello(f, same) ==
    IF f.hdr = "reset" THEN "raised"
    ELSE IF f.hdr = "short" THEN "closed_early"
    ELSE IF f.length = U32(0) \/ U32Gt(f.length, IDENTITY_MAX) THEN "bad_length"
    ELSE IF f.body = "reset" THEN "raised"
    ELSE IF f.body = "short" THEN "closed_early"
    ELSE IF ~f.utf8 THEN "raised"
    ELSE IF same THEN "identity" ELSE "other_identity"

\* what becomes of the accepted socket: returned to handle_client, closed
\* by the function, or released with the exception's frames
PeerSocket(hello) ==
    CASE hello = "identity" -> "returned"
      [] hello = "raised" -> "dropped"
      [] OTHER -> "closed"

\* the rendezvous without its check of the HELLO: the accepted socket is
\* returned whatever the peer sent first
StreamAcceptAnyHello ==
    /\ stream.pc = "accept"
    /\ \E f \in IdentityFrames(3), same \in BOOLEAN :
         stream' = [stream EXCEPT !.pc = "recv", !.audio_socket = "open",
                                  !.registers = @ + 1,
                                  !.peer_hello = PeerHello(f, same),
                                  !.client_socket = "returned"]
    /\ UNCHANGED <<relay, dial>>

\* REGISTER sent and the outbound processor connected; its HELLO is read and
\* compared with the call id, a bad one closes the socket and returns None
StreamAccept ==
    /\ stream.pc = "accept"
    /\ \E f \in IdentityFrames(3), same \in BOOLEAN :
         stream' = IF HelloAccepted(f) /\ same
                   THEN [stream EXCEPT !.pc = "recv", !.audio_socket = "open",
                                       !.registers = @ + 1,
                                       !.peer_hello = PeerHello(f, same),
                                       !.client_socket = PeerSocket(PeerHello(f, same))]
                   ELSE [stream EXCEPT !.pc = "finally", !.registers = @ + 1,
                                       !.peer_hello = PeerHello(f, same),
                                       !.client_socket = PeerSocket(PeerHello(f, same))]
    /\ UNCHANGED <<relay, dial>>

\* lines 311-333: one pass of the while loop up to the decoded text
StreamFrameOutcome(f) ==
    IF f.hdr = "reset" THEN [to |-> "raise", exit |-> "reset", reads |-> 0]
    ELSE IF f.hdr = "short" THEN [to |-> "break", exit |-> "disconnect", reads |-> 0]
    ELSE IF f.length = BYE_LENGTH THEN [to |-> "break", exit |-> "sentinel", reads |-> 0]
    ELSE IF f.length = U32(0) \/ U32Gt(f.length, TEXT_MAX)
         THEN [to |-> "break", exit |-> "violation", reads |-> 0]
    ELSE IF f.body = "reset" THEN [to |-> "raise", exit |-> "reset", reads |-> 1]
    ELSE IF f.body = "short" THEN [to |-> "break", exit |-> "disconnect", reads |-> 1]
    ELSE IF ~f.utf8 THEN [to |-> "raise", exit |-> "decode", reads |-> 1]
    ELSE [to |-> "text", exit |-> "none", reads |-> 1]

StreamRecv ==
    /\ stream.pc = "recv"
    /\ \E f \in InboundFrames :
         LET o == StreamFrameOutcome(f) IN
         /\ o.to = "text" => stream.texts < MaxTexts
         /\ stream' = [stream EXCEPT
                !.pc = IF o.to = "text" THEN "pipeline" ELSE "finally",
                !.texts = IF o.to = "text" THEN @ + 1 ELSE @,
                !.reads = @ + o.reads,
                !.first = IF @ # "none" THEN @ ELSE FirstKind(f),
                !.exit = o.exit,
                !.n = 0, !.i = 0, !.frames = <<>>, !.complete = FALSE]
    /\ UNCHANGED <<relay, dial>>

\* for result in self.pipeline(...): the generator ends, raises, yields a
\* result without audio, or yields n samples
StreamPipeline ==
    /\ stream.pc = "pipeline"
    /\ \/ stream' = [stream EXCEPT !.pc = "recv", !.n = 0, !.i = 0,
                                   !.frames = <<>>, !.complete = FALSE]
       \/ stream' = [stream EXCEPT !.pc = "finally", !.exit = "synthesis",
                                   !.n = 0, !.i = 0, !.frames = <<>>,
                                   !.complete = FALSE]
       \/ stream' = stream
       \/ /\ stream.buffers < MaxBuffers
          /\ \E n \in ResultLengths :
               stream' = [stream EXCEPT !.pc = "slice", !.n = n, !.i = 0,
                                        !.frames = <<>>, !.complete = FALSE,
                                        !.buffers = @ + 1]
    /\ UNCHANGED <<relay, dial>>

\* for i in range(0, len(audio), subchunk_size): cut the frame, count it,
\* pack and send the header; any exception leaves both loops
StreamSlice ==
    /\ stream.pc = "slice"
    /\ IF stream.i < stream.n
       THEN LET frame == Slice(Buffer(stream.n), stream.i)
                audio_bytes == tobytes(frame)
                header == <<Len(audio_bytes), SAMPLE_RATE, stream.chunk_id + 1>>
            IN  \/ stream' = [stream EXCEPT !.pc = "send_bytes",
                                            !.chunk_id = @ + 1,
                                            !.header = header,
                                            !.ids = Append(@, stream.chunk_id + 1)]
                \/ stream' = [stream EXCEPT !.pc = "finally", !.exit = "send",
                                            !.chunk_id = @ + 1,
                                            !.n = 0, !.i = 0, !.frames = <<>>]
       ELSE stream' = [stream EXCEPT !.pc = "pipeline", !.complete = TRUE]
    /\ UNCHANGED <<relay, dial>>

\* audio_socket.sendall(audio_bytes), then the next window
StreamSendBytes ==
    /\ stream.pc = "send_bytes"
    /\ LET frame == Slice(Buffer(stream.n), stream.i) IN
       \/ stream' = [stream EXCEPT
              !.pc = "slice",
              !.frames = Append(@, [header |-> stream.header, bytes |-> tobytes(frame)]),
              !.header = <<>>,
              !.i = @ + subchunk_size]
       \/ stream' = [stream EXCEPT !.pc = "finally", !.exit = "send", !.header = <<>>,
                                   !.n = 0, !.i = 0, !.frames = <<>>]
    /\ UNCHANGED <<relay, dial>>

\* finally: with an audio socket, sendall(struct.pack('!I', 0)) and close()
\* in one try; then the upstream socket is closed
StreamFinally ==
    /\ stream.pc = "finally"
    /\ \/ /\ stream.audio_socket = "open"
          /\ stream' = [stream EXCEPT !.pc = "done", !.audio_socket = "closed",
                                      !.marker = "LEN4"]
       \/ /\ stream.audio_socket = "open"
          /\ stream' = [stream EXCEPT !.pc = "done", !.audio_socket = "dropped"]
       \/ /\ stream.audio_socket # "open"
          /\ stream' = [stream EXCEPT !.pc = "done"]
    /\ UNCHANGED <<relay, dial>>

NextStream ==
    \/ StreamHello
    \/ StreamAcceptTimeout
    \/ StreamAccept
    \/ StreamRecv
    \/ StreamPipeline
    \/ StreamSlice
    \/ StreamSendBytes
    \/ StreamFinally

SpecStream == InitStream /\ [][NextStream]_vars

\* the splitter alone: one result of any length up to MaxSamples, on a
\* connected audio socket
InitSplit ==
    /\ RelayIdle
    /\ dial = DialIdle
    /\ \E n \in 0..MaxSamples :
         stream = [StreamStart EXCEPT !.pc = "slice", !.audio_socket = "open",
                                      !.n = n, !.texts = 1, !.buffers = 1]

NextSplit == StreamSlice \/ StreamSendBytes

SpecSplit == InitSplit /\ [][NextSplit]_vars

(* ==================== the outbound port of a call ===================== *)
(* The port is computed from the call id, a string the upstream peer       *)
(* chooses. int(call_id) is modelled on strings over a small alphabet:     *)
(* digits, signs, a blank, an underscore and a letter.                     *)

\* the longest call id tried
MaxIdLen == 3

OUTBOUND_BASE_PORT == 9002

IdChars == {"0", "1", "7", "+", "-", " ", "_", "a"}
Digits == {"0", "1", "7"}
DigitValue(ch) == CASE ch = "0" -> 0 [] ch = "1" -> 1 [] OTHER -> 7

CallIdStrings ==
    UNION {[1..n -> IdChars] : n \in 1..MaxIdLen}

\* str.strip() as int() applies it: blanks at both ends are ignored
RECURSIVE StripLeft(_)
StripLeft(s) ==
    IF s # <<>> /\ Head(s) = " " THEN StripLeft(Tail(s)) ELSE s
RECURSIVE StripRight(_)
StripRight(s) ==
    IF s # <<>> /\ s[Len(s)] = " " THEN StripRight(SubSeq(s, 1, Len(s) - 1)) ELSE s
Strip(s) == StripRight(StripLeft(s))

\* the digits of an integer literal: digits, single underscores between them
IsDigits(s) ==
    /\ s # <<>>
    /\ \A k \in DOMAIN s : s[k] \in Digits \cup {"_"}
    /\ s[1] \in Digits /\ s[Len(s)] \in Digits
    /\ \A k \in 1..(Len(s) - 1) : ~(s[k] = "_" /\ s[k + 1] = "_")

RECURSIVE DigitsValue(_)
DigitsValue(s) ==
    IF s = <<>> THEN 0
    ELSE LET init == SubSeq(s, 1, Len(s) - 1)
             last == s[Len(s)]
         IN  IF last = "_" THEN DigitsValue(init)
             ELSE 10 * DigitsValue(init) + DigitValue(last)

\* int(call_id): the value, or ValueError
int(call_id) ==
    LET t == Strip(call_id)
        signed == t # <<>> /\ Head(t) \in {"+", "-"}
        body == IF signed THEN Tail(t) ELSE t
    IN  IF IsDigits(body)
        THEN [error |-> FALSE,
              value |-> IF signed /\ Head(t) = "-" THEN 0 - DigitsValue(body)
                        ELSE DigitsValue(body)]
        ELSE [error |-> TRUE, value |-> 0]

\* src/kokoro_service.py, calculate_outbound_port
calculate_outbound_port(call_id) ==
    LET n == int(call_id) IN
    IF n.error THEN [port |-> OUTBOUND_BASE_PORT, outcome |-> "dial"]
    ELSE [port |-> OUTBOUND_BASE_PORT + n.value, outcome |-> "dial"]

\* src/bin/kokoro_service.py, the first lines of _accept_outbound_after_register:
\* ValueError is not caught there; it ends handle_client in its except clause
listen_port(call_id) ==
    LET n == int(call_id) IN
    IF n.error THEN [port |-> 0, outcome |-> "error"]
    ELSE [port |-> OUTBOUND_BASE_PORT + n.value, outcome |-> "listen"]

InitPort ==
    /\ RelayIdle
    /\ dial = DialIdle
    /\ \E id \in CallIdStrings, v \in {"outbound", "rendezvous"} :
         stream = [pc |-> "identity", variant |-> v, call_id |-> id,
                   port |-> 0, outcome |-> "none"]

\* the registry-based service dials the port of the call
PortOutbound ==
    /\ stream.pc = "identity" /\ stream.variant = "outbound"
    /\ LET r == calculate_outbound_port(stream.call_id) IN
       stream' = [stream EXCEPT !.pc = "done", !.port = r.port, !.outcome = r.outcome]
    /\ UNCHANGED <<relay, dial>>

\* the streaming service listens on the port of the call
PortRendezvous ==
    /\ stream.pc = "identity" /\ stream.variant = "rendezvous"
    /\ LET r == listen_port(stream.call_id) IN
       stream' = [stream EXCEPT !.pc = "done", !.port = r.port, !.outcome = r.outcome]
    /\ UNCHANGED <<relay, dial>>

NextPort == PortOutbound \/ PortRendezvous

SpecPort == InitPort /\ [][NextPort]_vars

(* ================== reading one framed message ======================== *)
(* One text frame of the upstream connection at the level of the recv()    *)
(* calls: a 4-byte length prefix and `length` bytes of payload. The peer    *)
(* sends the first `sent` bytes of the frame; when that is less than the    *)
(* whole frame it has closed the connection after them, otherwise it keeps  *)
(* the connection open. TCP delivers the bytes in segments of any size.     *)
(*   "recv"       : handle_client of src/kokoro_service.py, one recv() for  *)
(*                  the prefix and one for the payload                      *)
(*   "recv_exact" : _recv_exact of src/bin/kokoro_service.py                *)

\* the longest payload tried, in bytes
MaxPayload == 3

PREFIX_BYTES == 4

FrameBytes(r) == PREFIX_BYTES + r.length

\* sock.recv(n): blocks until a byte is there or the peer has closed; the
\* set of the numbers of bytes it can return
recv(r, n) ==
    LET avail == r.sent - r.consumed
    IN  IF avail = 0 THEN {0}
        ELSE 1..(IF n < avail THEN n ELSE avail)

\* the number of bytes the part being read has
Wanted(r) == IF r.pc = "prefix" THEN PREFIX_BYTES ELSE r.length

\* the part has been read in full: the payload follows the prefix, the
\* frame is complete after the payload
PartRead(r) ==
    IF r.pc = "prefix" THEN [r EXCEPT !.pc = "payload", !.data = 0]
    ELSE [r EXCEPT !.pc = "done", !.data = 0, !.result = "frame"]

InitRecv ==
    /\ RelayIdle
    /\ dial = DialIdle
    /\ \E v \in {"recv", "recv_exact"}, l \in 1..MaxPayload :
       \E k \in 0..(PREFIX_BYTES + l) :
         stream = [pc |-> "prefix", variant |-> v, length |-> l, sent |-> k,
                   consumed |-> 0, data |-> 0, calls |-> 0, result |-> "none"]

\* length_bytes = client_socket.recv(4); if len(length_bytes) != 4: break
\* text_bytes = client_socket.recv(length); if len(text_bytes) != length: break
HandleClientRecv ==
    /\ stream.variant = "recv"
    /\ stream.pc \in {"prefix", "payload"}
    /\ \E m \in recv(stream, Wanted(stream)) :
         LET r == [stream EXCEPT !.consumed = @ + m, !.calls = @ + 1] IN
         stream' = IF m # Wanted(stream)
                   THEN [r EXCEPT !.pc = "done", !.result = "disconnect"]
                   ELSE PartRead(r)
    /\ UNCHANGED <<relay, dial>>

\* one pass of `while len(data) < n`: chunk = sock.recv(n - len(data));
\* if not chunk: return None; data += chunk
recv_exact ==
    /\ stream.variant = "recv_exact"
    /\ stream.pc \in {"prefix", "payload"}
    /\ \E m \in recv(stream, Wanted(stream) - stream.data) :
         LET r == [stream EXCEPT !.consumed = @ + m, !.calls = @ + 1,
                                 !.data = @ + m]
         IN  stream' = IF m = 0
                       THEN [r EXCEPT !.pc = "done", !.result = "disconnect"]
                       ELSE IF r.data < Wanted(stream) THEN r
                       ELSE PartRead(r)
    /\ UNCHANGED <<relay, dial>>

NextRecv == HandleClientRecv \/ recv_exact

SpecRecv == InitRecv /\ [][NextRecv]_vars

(* ================ one datagram of the registration listener ============ *)
(* One pass of the loop of registration_listener_thread on a datagram: the  *)
(* bytes decode as UTF-8 or not, the text is a head (a prefix, a misspelt   *)
(* prefix or nothing) followed by a few characters. A call id is a string,  *)
(* kept as the sequence of its characters.                                  *)

\* the most characters that follow the head of a datagram
MaxDatagramRest == 2

REGISTER_PREFIX == <<"R", "E", "G", "I", "S", "T", "E", "R", ":">>
BYE_PREFIX == <<"B", "Y", "E", ":">>

DatagramHeads ==
    {REGISTER_PREFIX, BYE_PREFIX, <<>>,
     <<"R", "E", "G", "I", "S", "T", "E", "R">>,
     <<"r", "e", "g", "i", "s", "t", "e", "r", ":">>,
     <<"B", "Y", "E">>,
     <<"H", "E", "L", "L", "O", ":">>}
DatagramRests ==
    UNION {[1..n -> {"1", "7", " "}] : n \in 0..MaxDatagramRest}

\* message.startswith(prefix)
startswith(message, prefix) ==
    /\ Len(message) >= Len(prefix)
    /\ SubSeq(message, 1, Len(prefix)) = prefix

\* message[n:]
From(message, n) == SubSeq(message, n + 1, Len(message))

\* registries the datagram can meet: no call, or call "1" registered and connected
DatagramRegistries == {{}, {<<"1">>}}

InitDatagram ==
    /\ RelayIdle
    /\ dial = DialIdle
    /\ \E h \in DatagramHeads, r \in DatagramRests, u \in BOOLEAN,
          known \in DatagramRegistries :
         stream = [pc |-> "recvfrom", utf8 |-> u, data |-> h \o r,
                   before |-> known, registered_calls |-> known,
                   outbound_sockets |-> known, call_id |-> <<>>,
                   threads |-> 0, port |-> 0, closed |-> {}, handled |-> "none"]

\* data.decode('utf-8').strip()
Message(r) == Strip(r.data)

\* if message.startswith("REGISTER:"): record message[9:] and start a thread
\* that runs connect_to_outbound_processor for it
DatagramRegister ==
    /\ stream.pc = "recvfrom"
    /\ stream.utf8
    /\ startswith(Message(stream), REGISTER_PREFIX)
    /\ LET call_id == From(Message(stream), 9) IN
       stream' = [stream EXCEPT !.pc = "thread", !.call_id = call_id,
                                !.registered_calls = @ \cup {call_id},
                                !.threads = @ + 1, !.handled = "register"]
    /\ UNCHANGED <<relay, dial>>

\* elif message.startswith("BYE:"): drop the record of message[4:], then
\* close_outbound_connection for it
DatagramBye ==
    /\ stream.pc = "recvfrom"
    /\ stream.utf8
    /\ ~startswith(Message(stream), REGISTER_PREFIX)
    /\ startswith(Message(stream), BYE_PREFIX)
    /\ LET call_id == From(Message(stream), 4) IN
       stream' = [stream EXCEPT !.pc = "done", !.call_id = call_id,
                                !.registered_calls = @ \ {call_id},
                                !.closed = stream.outbound_sockets \cap {call_id},
                                !.outbound_sockets = @ \ {call_id},
                                !.handled = "bye"]
    /\ UNCHANGED <<relay, dial>>

\* neither prefix: the loop goes round; bytes that do not decode: the
\* exception is caught and logged, the loop goes round
DatagramOther ==
    /\ stream.pc = "recvfrom"
    /\ \/ ~stream.utf8
       \/ /\ ~startswith(Message(stream), REGISTER_PREFIX)
          /\ ~startswith(Message(stream), BYE_PREFIX)
    /\ stream' = [stream EXCEPT !.pc = "done",
                                !.handled = IF stream.utf8 THEN "ignored" ELSE "error"]
    /\ UNCHANGED <<relay, dial>>

\* the thread REGISTER started: connect_to_outbound_processor returns when
\* the call is connected, else dials the call's port, and records the
\* connection when a peer accepts
DatagramThread ==
    /\ stream.pc = "thread"
    /\ LET call_id == stream.call_id
           port == calculate_outbound_port(call_id).port
       IN  IF call_id \in stream.outbound_sockets
           THEN stream' = [stream EXCEPT !.pc = "done"]
           ELSE \/ stream' = [stream EXCEPT !.pc = "done", !.port = port,
                                            !.outbound_sockets = @ \cup {call_id}]
                \/ stream' = [stream EXCEPT !.pc = "done", !.port = port]
    /\ UNCHANGED <<relay, dial>>

NextDatagram ==
    \/ DatagramRegister
    \/ DatagramBye
    \/ DatagramOther
    \/ DatagramThread

SpecDatagram == InitDatagram /\ [][NextDatagram]_vars

(* ========================= shutdown, timed ============================ *)
(* The two polling loops of src/kokoro_service.py against a clock in ms:    *)
(* the accept loop of run() (while self.running, accept with a timeout)     *)
(* and the loop of registration_listener_thread (while                     *)
(* self.registration_running, recvfrom with a timeout). A loop is at its    *)
(* test, waiting in its blocking call since `since`, or ended. Testing the  *)
(* flag and handing a connection or a datagram on take no time; time passes *)
(* only while both loops wait, and not beyond a wait's timeout.             *)

\* the clock's last value, in ms
MaxClock == 3000
\* connections and datagrams that arrive in all
MaxArrivals == 2

\* server_socket.settimeout(1.0)
accept_timeout_ms == 1000
\* udp_socket.settimeout(1.0)
recvfrom_timeout_ms == 1000

\* the amounts by which the clock advances
ClockSteps == {250, 500, 1000}

NotStopped == -1

LoopStart == [pc |-> "test", since |-> 0, ended_at |-> NotStopped]

InitStop ==
    /\ RelayIdle
    /\ dial = DialIdle
    /\ stream = [pc |-> "serving", running |-> TRUE, registration_running |-> TRUE,
                 clock |-> 0, stop_at |-> NotStopped, arrivals |-> 0,
                 arrived_after_stop |-> 0,
                 accept |-> LoopStart, listen |-> LoopStart]

Deadline(l, timeout) == IF l.pc = "wait" THEN l.since + timeout ELSE MaxClock

\* time passes while no loop has a step to take at once
StopTick ==
    /\ stream.pc = "serving"
    /\ stream.accept.pc # "test" /\ stream.listen.pc # "test"
    /\ \E d \in ClockSteps :
         /\ stream.clock + d <= MaxClock
         /\ stream.clock + d <= Deadline(stream.accept, accept_timeout_ms)
         /\ stream.clock + d <= Deadline(stream.listen, recvfrom_timeout_ms)
         /\ stream' = [stream EXCEPT !.clock = @ + d]
    /\ UNCHANGED <<relay, dial>>

\* stop(): self.running = False; self.registration_running = False
stop ==
    /\ stream.pc = "serving"
    /\ stream.stop_at = NotStopped
    /\ stream' = [stream EXCEPT !.running = FALSE, !.registration_running = FALSE,
                                !.stop_at = stream.clock]
    /\ UNCHANGED <<relay, dial>>

\* the loop test with the flag ignored: while True
AcceptLoopTestForever ==
    /\ stream.pc = "serving"
    /\ stream.accept.pc = "test"
    /\ stream' = [stream EXCEPT !.accept.pc = "wait", !.accept.since = stream.clock]
    /\ UNCHANGED <<relay, dial>>

\* while self.running: ... ; finally: server_socket.close(),
\* self.registration_running = False
AcceptLoopTest ==
    /\ stream.pc = "serving"
    /\ stream.accept.pc = "test"
    /\ stream' = IF stream.running
                 THEN [stream EXCEPT !.accept.pc = "wait", !.accept.since = stream.clock]
                 ELSE [stream EXCEPT !.accept.pc = "ended",
                                     !.accept.ended_at = stream.clock,
                                     !.registration_running = FALSE]
    /\ UNCHANGED <<relay, dial>>

\* except socket.timeout: continue
AcceptTimeout ==
    /\ stream.pc = "serving"
    /\ stream.accept.pc = "wait"
    /\ stream.clock = stream.accept.since + accept_timeout_ms
    /\ stream' = [stream EXCEPT !.accept.pc = "test"]
    /\ UNCHANGED <<relay, dial>>

\* accept() returns a connection: a handler thread is started for it
AcceptConnection ==
    /\ stream.pc = "serving"
    /\ stream.accept.pc = "wait"
    /\ stream.arrivals < MaxArrivals
    /\ stream' = [stream EXCEPT !.accept.pc = "test", !.arrivals = @ + 1,
                                !.arrived_after_stop =
                                    IF stream.stop_at = NotStopped THEN @ ELSE @ + 1]
    /\ UNCHANGED <<relay, dial>>

\* while self.registration_running: ... ; finally: udp_socket.close()
ListenLoopTest ==
    /\ stream.pc = "serving"
    /\ stream.listen.pc = "test"
    /\ stream' = IF stream.registration_running
                 THEN [stream EXCEPT !.listen.pc = "wait", !.listen.since = stream.clock]
                 ELSE [stream EXCEPT !.listen.pc = "ended",
                                     !.listen.ended_at = stream.clock]
    /\ UNCHANGED <<relay, dial>>

\* except socket.timeout: continue
ListenTimeout ==
    /\ stream.pc = "serving"
    /\ stream.listen.pc = "wait"
    /\ stream.clock = stream.listen.since + recvfrom_timeout_ms
    /\ stream' = [stream EXCEPT !.listen.pc = "test"]
    /\ UNCHANGED <<relay, dial>>

\* recvfrom() returns a datagram: it is handled (or raises and is logged)
ListenDatagram ==
    /\ stream.pc = "serving"
    /\ stream.listen.pc = "wait"
    /\ stream.arrivals < MaxArrivals
    /\ stream' = [stream EXCEPT !.listen.pc = "test", !.arrivals = @ + 1,
                                !.arrived_after_stop =
                                    IF stream.stop_at = NotStopped THEN @ ELSE @ + 1]
    /\ UNCHANGED <<relay, dial>>

NextStop ==
    \/ StopTick
    \/ stop
    \/ AcceptLoopTest
    \/ AcceptTimeout
    \/ AcceptConnection
    \/ ListenLoopTest
    \/ ListenTimeout
    \/ ListenDatagram

SpecStop == InitStop /\ [][NextStop]_vars

(* ============ the rendezvous of the streaming service, timed =========== *)
(* The while loop of _accept_outbound_after_register of                    *)
(* src/bin/kokoro_service.py with self.running True: each pass sends one    *)
(* REGISTER and waits in accept() for 0.2 s; a pass whose accept() timed    *)
(* out sleeps 0.2 s during the first second and 1 s afterwards. The         *)
(* outbound processor connects peer_up_at ms after the start, or never.     *)
(* The pass counter and the clock are followed up to a value past which     *)
(* the loop no longer tells them apart.                                     *)

\* server_socket.settimeout(0.2)
rendezvous_accept_ms == 200
\* elapsed < 1.0
first_second_ms == 1000

NeverConnects == -1

\* the values up to which the counter and the clock are followed
AttemptCap == max_attempts + 1
ClockCap == (MaxPeerDelay + 1) * 100

Capped(n, cap) == IF n < cap THEN n ELSE cap

\* sleep_time = 0.2 if elapsed < 1.0 else 1.0
rendezvous_sleep_ms(elapsed) == IF elapsed < first_second_ms THEN 200 ELSE 1000

InitRendezvous ==
    /\ RelayIdle
    /\ stream = StreamIdle
    /\ \E k \in {NeverConnects} \cup {100 * j : j \in 0..MaxPeerDelay} :
         dial = [pc |-> "loop", peer_up_at |-> k, attempt |-> 0, clock |-> 0,
                 registers |-> 0, result |-> "none"]

PeerUpBy(t) == dial.peer_up_at # NeverConnects /\ dial.peer_up_at <= t

\* one pass whose accept() times out: REGISTER, accept, sleep, continue
RendezvousTimeout ==
    /\ dial.pc = "loop"
    /\ ~PeerUpBy(dial.clock + rendezvous_accept_ms)
    /\ dial' = [dial EXCEPT
           !.attempt = Capped(@ + 1, AttemptCap),
           !.registers = Capped(@ + 1, AttemptCap),
           !.clock = Capped(@ + rendezvous_accept_ms + rendezvous_sleep_ms(dial.clock),
                            ClockCap)]
    /\ UNCHANGED <<relay, stream>>

\* one pass whose accept() returns the outbound processor's connection
RendezvousAccept ==
    /\ dial.pc = "loop"
    /\ PeerUpBy(dial.clock + rendezvous_accept_ms)
    /\ dial' = [dial EXCEPT
           !.pc = "accepted", !.result = "socket",
           !.attempt = Capped(@ + 1, AttemptCap),
           !.registers = Capped(@ + 1, AttemptCap)]
    /\ UNCHANGED <<relay, stream>>

NextRendezvous == RendezvousTimeout \/ RendezvousAccept

SpecRendezvous == InitRendezvous /\ [][NextRendezvous]_vars

(* ================= the outbound ports of two calls ==================== *)
(* Two calls with different call ids are active at once; the connector of  *)
(* each computes the port it dials with calculate_outbound_port.           *)

InitPorts ==
    /\ RelayIdle
    /\ dial = DialIdle
    /\ \E id \in CallIdStrings :
         stream = [pc |-> "calls", ids |-> <<id>>, ports |-> <<>>]

\* a second call, with another call id, becomes active
PortsSecondCall ==
    /\ stream.pc = "calls"
    /\ Len(stream.ids) = 1 /\ Len(stream.ports) = 1
    /\ \E id \in CallIdStrings :
         /\ id # stream.ids[1]
         /\ stream' = [stream EXCEPT !.ids = Append(@, id)]
    /\ UNCHANGED <<relay, dial>>

\* connect_to_outbound_processor: port = self.calculate_outbound_port(call_id)
PortsConnect ==
    /\ stream.pc = "calls"
    /\ Len(stream.ports) < Len(stream.ids)
    /\ stream' = [stream EXCEPT !.ports =
           Append(@, calculate_outbound_port(stream.ids[Len(stream.ports) + 1]).port)]
    /\ UNCHANGED <<relay, dial>>

NextPorts == PortsSecondCall \/ PortsConnect

SpecPorts == InitPorts /\ [][NextPorts]_vars

(* ============================== claims ================================ *)
SocketsOf(c) == {i \in DOMAIN sockets : sockets[i].call = c}
OpenSocketsOf(c) == {i \in SocketsOf(c) : sockets[i].st = "open"}
IsAudioHeader(m) == m.kind = "HDR12" /\ m.length > 0
IsMarker(m) == m.kind = "HDR12" /\ m.length = 0
HasMsg(i, P(_)) == \E k \in DOMAIN sockets[i].wire : P(sockets[i].wire[k])
LoopLeft(c) == pc[Handler(c)] \in {"close_acquire", "close_send", "h_done"}

\* C1: the chunk_id values written in the audio headers of one
\* call increase by exactly one from each header to the next, over send
\* failures and reconnects, so that no value is used twice.
C1_ChunkIdsGapless ==
    \A c \in CallIds :
        \A k \in 2..Len(ghost[c].ids) : ghost[c].ids[k] = ghost[c].ids[k - 1] + 1

\* C2: the dial threads started by the REGISTER datagrams of one
\* call establish one connection between them: never two connections dialed
\* by REGISTER threads of the same call are open together.
C2_RegistersCollapse ==
    \A c \in CallIds :
        Cardinality({i \in OpenSocketsOf(c) : sockets[i].by \in Dialers}) <= 1

\* C3: at most one outbound connection of a call is open, and an
\* open connection is the one outbound_sockets records (a connection whose
\* dialing thread is about to record it counts as recorded).
C3_OneOpenPerCall ==
    \A c \in CallIds :
        /\ Cardinality(OpenSocketsOf(c)) <= 1
        /\ \A i \in OpenSocketsOf(c) :
              \/ outbound_sockets[c] = i
              \/ \E t \in Threads : pc[t] = "conn_install" /\ loc[t].s = i

\* C4: when the first message after the identity is the 0xFFFFFFFF header,
\* the handler has left its loop, has read no payload, has not called
\* synthesize and has written no audio header for the call.
C4_SentinelFirst ==
    \A c \in CallIds :
        ghost[c].first = "sentinel" =>
            /\ LoopLeft(c)
            /\ ghost[c].reads = 0
            /\ ghost[c].synth = 0
            /\ ghost[c].ids = <<>>
            /\ \A i \in SocketsOf(c) : ~HasMsg(i, IsAudioHeader)

C4_Witness ==
    \E c \in CallIds :
        /\ ghost[c].first = "sentinel"
        /\ pc[Handler(c)] = "h_done"
        /\ \E i \in SocketsOf(c) : HasMsg(i, IsMarker)

\* C5: a call none of whose dial attempts has succeeded holds nothing another
\* call's handler waits for: when a handler is waiting for
\* outbound_sockets_lock, the thread holding it does not belong to such a
\* call, and no thread holds the lock while it dials or sleeps.
LockSteps == {"conn_check", "conn_install", "send_lookup", "send_evict", "close_acquire"}
WaitsForLock(t) == pc[t] \in LockSteps /\ lock # NoThread /\ lock # t
C5_CallsIndependent ==
    /\ \A t \in Threads : lock = t => pc[t] # "conn_dial"
    /\ \A d \in CallIds :
          WaitsForLock(Handler(d)) =>
              ~(ThreadCall(lock) # d /\ SocketsOf(ThreadCall(lock)) = {})

\* call 102 never got a connection and gave up dialing; call 101 was served
\* in full: audio sent, end-of-call marker written, handler finished
C5_Witness ==
    /\ SocketsOf(102) = {} /\ ghost[102].gave_up /\ pc[Handler(102)] = "h_done"
    /\ pc[Handler(101)] = "h_done"
    /\ \E i \in SocketsOf(101) :
          /\ HasMsg(i, IsAudioHeader)
          /\ HasMsg(i, IsMarker)
          /\ sockets[i].st = "closed"

\* C10: however the handler's loop was left, once the handler
\* has finished, the outbound connection the call had at that moment is
\* closed and no longer in outbound_sockets.
C10_TeardownOnEveryExit ==
    \A c \in CallIds :
        (pc[Handler(c)] = "h_done" /\ ghost[c].exit_sock # NoSocket) =>
            /\ sockets[ghost[c].exit_sock].st # "open"
            /\ outbound_sockets[c] # ghost[c].exit_sock

\* C6, with the successful attempt placed at about 1.4 s: with the peer refusing connections for the first 1.3 s,
\* the attempt that connects is the one made about 1.4 s after the start.
C6_ConnectsAt1400 ==
    (dial.pc = "done" /\ dial.peer_up_at = 1300 /\ dial.result = "connected") =>
        dial.clock \in 1300..1500

\* C6, with the successful attempt placed by the waits: with the peer refusing connections for the first 1.3 s, the
\* attempt that connects is the seventh, made 2.0 s after the start (five
\* waits of 200 ms and one of 1000 ms); every earlier attempt was made
\* before 1.3 s and failed.
C6_ConnectsAt2000 ==
    (dial.pc # "none" /\ dial.peer_up_at = 1300) =>
        /\ dial.result = "connected" =>
              /\ dial.attempt = 7
              /\ dial.clock = 2000
              /\ dial.waits = <<200, 200, 200, 200, 200, 1000>>
        /\ \A k \in DOMAIN dial.tries :
              dial.tries[k] < 1300 => ~(dial.result = "connected" /\ k = Len(dial.tries))
        /\ (dial.pc = "done" /\ dial.registered) => dial.result = "connected"

C6_Witness ==
    dial.pc = "done" /\ dial.peer_up_at = 1300 /\ dial.result = "connected"

\* C7: one invocation dials at most 10 times; the wait after failed attempt k
\* is 200 ms for k <= 5 and 1000 ms for k > 5; it reports failure only after
\* the 10th attempt has failed, and then it has ended.
C7_RetrySchedule ==
    dial.pc # "none" =>
        /\ Len(dial.tries) <= 10
        /\ dial.attempt <= 10
        /\ \A k \in DOMAIN dial.waits :
              dial.waits[k] = IF k <= 5 THEN 200 ELSE 1000
        /\ dial.result = "failed" => (dial.attempt = 10 /\ dial.pc = "done")
        /\ dial.pc = "done" => dial.result # "none"

C7_Witness ==
    /\ dial.pc = "done" /\ dial.result = "failed"
    /\ Len(dial.tries) = 10 /\ Len(dial.waits) = 10

\* numpy.frombuffer(bytes, dtype=float32) on the receiving side
frombuffer(bytes) ==
    [k \in 1..(Len(bytes) \div 4) |->
        bytes[4 * k - 3] + 256 * bytes[4 * k - 2] + 65536 * bytes[4 * k - 1]
        + 16777216 * bytes[4 * k]]

\* the payloads of the frames received so far, one after the other
RECURSIVE Joined(_)
Joined(frames) ==
    IF frames = <<>> THEN <<>>
    ELSE Joined(SubSeq(frames, 1, Len(frames) - 1)) \o frames[Len(frames)].bytes

Slicing == stream.pc \in {"slice", "send_bytes", "pipeline"}

\* C8: the payloads of the frames of one synthesis result, joined in
\* chunk_id order and read back as float32 samples, are the result's buffer:
\* no sample is lost, repeated or reordered, and each header announces the
\* length of its payload.
C8_RoundTrip ==
    Slicing =>
        LET fr == stream.frames
            sent == IF stream.i < stream.n THEN stream.i ELSE stream.n
        IN  /\ \A k \in 1..(Len(fr) - 1) : fr[k].header[3] < fr[k + 1].header[3]
            /\ \A k \in 1..Len(fr) : /\ fr[k].header[1] = Len(fr[k].bytes)
                                     /\ fr[k].header[2] = SAMPLE_RATE
            /\ frombuffer(Joined(fr)) = Buffer(sent)
            /\ stream.complete => frombuffer(Joined(fr)) = Buffer(stream.n)

C8_Witness ==
    /\ stream.pc = "pipeline" /\ stream.complete
    /\ stream.n > 2 * subchunk_size
    /\ Len(stream.frames) = 3

\* C9: every audio frame carries one window of at most 960 samples (40 ms at
\* 24 kHz); a result longer than a window goes out as several frames.
C9_FramesAreWindows ==
    \A i \in DOMAIN sockets : \A k \in DOMAIN sockets[i].wire :
        sockets[i].wire[k].kind = "PCM" => sockets[i].wire[k].body <= subchunk_size

\* C9, streaming service: a buffer of N samples is sent as ceil(N / 960)
\* frames, each but the last of 960 samples, the last of the remainder.
C9_StreamWindows ==
    (Slicing /\ stream.complete) =>
        LET fr == stream.frames
            count == (stream.n + subchunk_size - 1) \div subchunk_size
        IN  /\ Len(fr) = count
            /\ \A k \in 1..(count - 1) : Len(fr[k].bytes) = 4 * subchunk_size
            /\ count > 0 =>
                 Len(fr[count].bytes) = 4 * (stream.n - (count - 1) * subchunk_size)

\* C1, streaming service: the chunk ids sent over one connection are 1, 2, 3...
C1_StreamIdsGapless ==
    \A k \in 1..Len(stream.ids) : stream.ids[k] = k

\* C4, streaming service: the 0xFFFFFFFF header as first message ends the
\* loop with no payload read, no text synthesized and no frame sent.
C4_StreamSentinelFirst ==
    stream.first = "sentinel" =>
        /\ stream.pc \in {"finally", "done"}
        /\ stream.reads = 0 /\ stream.texts = 0 /\ stream.ids = <<>>

\* C10, streaming service: once the handler is done, an audio socket that was
\* accepted is closed, and the marker was sent unless sending it failed.
C10_StreamTeardown ==
    stream.pc = "done" => stream.audio_socket # "open"

\* C11: when the listener has served a BYE datagram of a call, the call's
\* registration record is gone and outbound_sockets holds no connection for
\* the call; the connection it held was closed with the end-of-call marker
\* as the last thing written on it (unless writing the marker failed, in
\* which case the connection is given up without it).
ListenerFinishesBye ==
    /\ pc[Listener] \in {"close_acquire", "close_send"}
    /\ pc'[Listener] = "l_recv"
C11_ByeTearsDown ==
    [][ListenerFinishesBye =>
          /\ lcall \notin registered_calls'
          /\ outbound_sockets'[lcall] = NoSocket
          /\ LET i == outbound_sockets[lcall] IN
             i # NoSocket =>
                \/ /\ sockets'[i].st = "closed"
                   /\ sockets'[i].wire = Append(sockets[i].wire, ByeMarker)
                \/ /\ sockets'[i].st # "closed" \/ sockets[i].st # "open"
                   /\ sockets'[i].wire = sockets[i].wire]_vars

\* the listener, not the handler, has torn the connection down
C11_Witness ==
    /\ pc[Listener] = "l_recv" /\ udp.bye[101] = 1
    /\ pc[Handler(101)] = "h_recv"
    /\ outbound_sockets[101] = NoSocket /\ 101 \notin registered_calls
    /\ \E i \in SocketsOf(101) :
          /\ sockets[i].st = "closed"
          /\ sockets[i].wire[Len(sockets[i].wire)] = ByeMarker

\* C12: a handler whose call got no outbound connection goes on with the
\* upstream connection: it ends only on the end-of-call header or when the
\* upstream peer disconnects. Streaming service: the identity was accepted,
\* the rendezvous with the outbound processor gave no audio socket.
C12_StreamStaysOpen ==
    (/\ stream.pc \in {"finally", "done"}
     /\ stream.registers > 0
     /\ stream.audio_socket = "none") =>
        stream.exit \in {"sentinel", "disconnect"}

\* C12, registry-based service: when all dial attempts of the handler's
\* reconnect have failed, the handler drops the audio (nothing is written
\* downstream) and reads the next upstream message.
C12_HandlerContinues ==
    [][\A t \in Handlers :
          (pc[t] = "conn_dial" /\ pc'[t] \notin {"conn_dial", "conn_install"}) =>
              /\ pc'[t] = "h_recv"
              /\ sockets' = sockets
              /\ outbound_sockets' = outbound_sockets]_vars

\* C13: a synthesis that fails does not end the call: no handler has left
\* its loop because the synthesis of a text raised.
C13_StreamSynthesisFailure ==
    stream.exit = "synthesis" => stream.pc \notin {"finally", "done"}

\* C13, registry-based service: a pass of the loop that called synthesize()
\* either has audio to send or, the synthesis having given nothing, writes
\* nothing downstream and reads the next upstream message.
C13_SynthesisFailureSkips ==
    [][\A c \in CallIds :
          (pc[Handler(c)] = "h_recv" /\ ghost'[c].synth = ghost[c].synth + 1) =>
              \/ pc'[Handler(c)] = "send_lookup" /\ loc'[Handler(c)].audio > 0
              \/ /\ pc'[Handler(c)] = "h_recv"
                 /\ sockets' = sockets
                 /\ outbound_sockets' = outbound_sockets]_vars

AudioHeadersOn(i) ==
    {k \in DOMAIN sockets[i].wire : IsAudioHeader(sockets[i].wire[k])}
RECURSIVE HeaderCount(_)
HeaderCount(S) ==
    IF S = {} THEN 0
    ELSE LET i == CHOOSE x \in S : TRUE
         IN  Cardinality(AudioHeadersOn(i)) + HeaderCount(S \ {i})
C14_StreamInboundSilent == stream.pc # "none" => stream.inbound = <<>>

C16_StreamMarkerIsHeader ==
    stream.marker \in {"none", "HDR12"}

\* C16, registry-based service: whatever is written with length 0 on an
\* outbound connection is the 12-byte header (0, 0, 0).
C16_RelayMarkerIsHeader ==
    \A i \in DOMAIN sockets : \A k \in DOMAIN sockets[i].wire :
        sockets[i].wire[k].length = 0 => sockets[i].wire[k] = ByeMarker

\* C17: after an identity frame of length 0 or of a length above 1024 the
\* handler has ended at once: it has read no text frame, synthesized
\* nothing, written nothing downstream, and has created no connection and
\* no registry entry (the call's connections, if any, are those REGISTER
\* threads dialed).
C17_BadIdentityCloses ==
    \A c \in CallIds :
        ghost[c].hello = "bad_length" =>
            /\ pc[Handler(c)] = "h_done"
            /\ ghost[c].reads = 0 /\ ghost[c].synth = 0
            /\ ghost[c].first = "none" /\ ghost[c].ids = <<>>
            /\ ghost[c].exit_sock = NoSocket /\ ghost[c].inbound = <<>>
            /\ \A i \in SocketsOf(c) :
                  /\ sockets[i].by \in Dialers
                  /\ ~HasMsg(i, IsAudioHeader)

C17_Witness ==
    /\ ghost[101].hello = "bad_length" /\ pc[Handler(101)] = "h_done"
    /\ outbound_sockets[101] = NoSocket /\ chunk_counters[101] = NoCounter

\* C17, streaming service: a handler that ended before it asked for the
\* rendezvous has read no text, sent no frame and no marker.
C17_StreamBadIdentityCloses ==
    (stream.pc \in {"finally", "done"} /\ stream.registers = 0) =>
        /\ stream.reads = 0 /\ stream.texts = 0 /\ stream.ids = <<>>
        /\ stream.audio_socket = "none" /\ stream.marker = "none"

\* C18: a text-frame header with length 0 or a length above 10 MiB ends the
\* loop as a protocol violation without its payload being read or
\* synthesized: when the loop was left for a violation every payload read
\* before was a text that was synthesized, and when the first header is
\* such a one nothing was read or synthesized at all.
C18_BadTextLengthCloses ==
    \A c \in CallIds :
        /\ ghost[c].exit = "violation" =>
              /\ LoopLeft(c)
              /\ ghost[c].reads = ghost[c].synth
        /\ ghost[c].first = "bad_length" =>
              /\ LoopLeft(c)
              /\ ghost[c].exit = "violation"
              /\ ghost[c].reads = 0 /\ ghost[c].synth = 0 /\ ghost[c].ids = <<>>

\* the handler has ended (upstream socket closed) after such a first header
C18_Witness ==
    /\ ghost[101].first = "bad_length" /\ ghost[101].exit = "violation"
    /\ pc[Handler(101)] = "h_done"

\* C18, streaming service
C18_StreamBadTextLengthCloses ==
    /\ stream.exit = "violation" => stream.pc \in {"finally", "done"}
    /\ stream.first = "bad_length" =>
          /\ stream.pc \in {"finally", "done"}
          /\ stream.exit = "violation"
          /\ stream.reads = 0 /\ stream.texts = 0 /\ stream.ids = <<>>

\* C19: the port of a call id that is a non-negative integer is 9002 plus
\* that integer, the port of a call id that is no integer is 9002, and in
\* neither case does computing the port end the call.
PortComputed == stream.pc = "done" /\ stream.variant \in {"outbound", "rendezvous"}
C19_PortOfCallId ==
    PortComputed =>
        LET n == int(stream.call_id) IN
        /\ stream.outcome # "error"
        /\ (~n.error /\ n.value >= 0) => stream.port = OUTBOUND_BASE_PORT + n.value
        /\ n.error => stream.port = OUTBOUND_BASE_PORT

\* C19, registry-based service alone
C19_RelayPortOfCallId ==
    (PortComputed /\ stream.variant = "outbound") =>
        LET n == int(stream.call_id) IN
        /\ stream.outcome = "dial"
        /\ (~n.error /\ n.value >= 0) => stream.port = OUTBOUND_BASE_PORT + n.value
        /\ n.error => stream.port = OUTBOUND_BASE_PORT

\* int() as modelled reads "17" as 17, " 7" as 7, "1_7" as 17, and rejects
\* "a", "1a", "_1", "1_", "--1" and the blank string
C19_IntSamples ==
    /\ int(<<"1", "7">>) = [error |-> FALSE, value |-> 17]
    /\ int(<<" ", "7">>) = [error |-> FALSE, value |-> 7]
    /\ int(<<"1", "_", "7">>) = [error |-> FALSE, value |-> 17]
    /\ int(<<"-", "7">>) = [error |-> FALSE, value |-> 0 - 7]
    /\ int(<<"0", "0", "7">>) = [error |-> FALSE, value |-> 7]
    /\ \A bad \in {<<"a">>, <<"1", "a">>, <<"_", "1">>, <<"1", "_">>,
                   <<"-", "-", "1">>, <<" ">>, <<"+">>, <<"1", " ", "1">>} :
          int(bad).error

\* C20: a handler writes an audio header or an audio payload only on a
\* socket that no other thread is closing: when the write happens no other
\* thread is inside close_outbound_connection with that socket as the one
\* it found in outbound_sockets.
WritesAudio(t) ==
    \/ pc[t] = "send_header" /\ pc'[t] = "send_bytes"
    \/ pc[t] = "send_bytes" /\ pc'[t] \notin {"send_bytes", "send_evict"}
C20_SendAtomicWithCheck ==
    [][\A t \in Handlers :
          WritesAudio(t) =>
              /\ sockets[loc[t].s].st = "open"
              /\ ~\E u \in Threads \ {t} :
                    /\ pc[u] = "close_send"
                    /\ outbound_sockets[ThreadCall(u)] = loc[t].s]_vars

\* C20, seen by the downstream processor: on an outbound connection an audio
\* header is followed by its payload, never by the end-of-call marker.
C20_HeaderThenPayload ==
    \A i \in DOMAIN sockets : \A k \in DOMAIN sockets[i].wire :
        (IsAudioHeader(sockets[i].wire[k]) /\ k < Len(sockets[i].wire)) =>
            sockets[i].wire[k + 1].kind = "PCM"

\* C21: a handler that finds no outbound connection for the audio it has
\* ready drops the audio and goes straight back to reading the upstream
\* connection: it does not enter connect_to_outbound_processor.
C21_DropsWithoutDialing ==
    [][\A t \in Handlers :
          (/\ pc[t] = "send_lookup" /\ pc'[t] # "send_lookup"
           /\ outbound_sockets[ThreadCall(t)] = NoSocket) =>
              pc'[t] = "h_recv"]_vars

\* C21, the dial loop itself: a handler is inside the attempt loop of
\* connect_to_outbound_processor only after a write on a connection failed,
\* that is, when the call had a connection before.
C21_HandlerDialsOnlyAfterFailure ==
    \A c \in CallIds :
        pc[Handler(c)] = "conn_dial" => SocketsOf(c) # {}

\* C22: no thread owns outbound_sockets_lock while it is at a blocking
\* operation: the connect of the dial loop, a sendall or a close.
BlockingSteps == {"conn_dial", "send_header", "send_bytes", "close_send"}
C22_NoBlockingUnderLock ==
    \A t \in Threads : lock = t => pc[t] \notin BlockingSteps

\* C23: when a write of send_audio_to_outbound has failed, the function
\* ends with the call's entry gone from outbound_sockets and the socket it
\* was writing on no longer open; it writes nothing more on any connection
\* and opens none, and leaves the retry to its caller.
SendFails(t) == pc[t] = "send_evict" /\ pc'[t] # "send_evict"
C23_FailedSendEvicts ==
    [][\A t \in Handlers :
          SendFails(t) =>
              /\ outbound_sockets'[ThreadCall(t)] = NoSocket
              /\ sockets'[loc[t].s].st # "open"
              /\ Len(sockets') = Len(sockets)
              /\ \A j \in DOMAIN sockets : sockets'[j].wire = sockets[j].wire
              /\ chunk_counters' = chunk_counters
              /\ pc'[t] \in {"conn_check", "h_recv"}]_vars

\* the header went out, the payload did not: the connection was closed by
\* the eviction, the handler is about to reconnect
C23_Witness ==
    /\ pc[Handler(101)] = "conn_check"
    /\ outbound_sockets[101] = NoSocket
    /\ \E i \in SocketsOf(101) :
          /\ sockets[i].st = "closed"
          /\ IsAudioHeader(sockets[i].wire[Len(sockets[i].wire)])

\* C24: a write on the outbound connection that fails does not end the
\* call: the handler reconnects once, resends, and goes on with the next
\* text. Streaming service: the loop is not left because a sendall raised.
C24_StreamResendsOnce ==
    stream.exit = "send" => stream.pc \notin {"finally", "done"}

\* C24, registry-based service: every synthesized unit is sent at most
\* twice, and a handler that has reconnected is sending or back at reading
\* the upstream connection: it does not reconnect a second time.
C24_RelayResendsOnce ==
    \A c \in CallIds :
        /\ Len(ghost[c].ids) <= 2 * ghost[c].synth
        /\ loc[Handler(c)].retry =>
              pc[Handler(c)] \in {"send_lookup", "send_header", "send_bytes", "send_evict"}

\* C25: a frame is reported as a disconnect only when the peer has closed
\* the connection before the frame was complete; a frame the peer has sent
\* in full is read in full, however TCP has cut it into segments.
C25_ReadInFull ==
    stream.pc = "done" =>
        /\ stream.result = "disconnect" => stream.sent < FrameBytes(stream)
        /\ stream.sent = FrameBytes(stream) =>
              (stream.result = "frame" /\ stream.consumed = FrameBytes(stream))

\* C25, _recv_exact alone
C25_RecvExactReadsInFull ==
    (stream.pc = "done" /\ stream.variant = "recv_exact") =>
        /\ stream.result = "disconnect" <=> stream.sent < FrameBytes(stream)
        /\ stream.result = "frame" <=> stream.consumed = FrameBytes(stream)

\* C26: a REGISTER for a call that has an outbound connection changes
\* nothing of the session: receiving it leaves outbound_sockets,
\* chunk_counters and the connections as they are, and the connector thread
\* it starts, finding the call in outbound_sockets, ends without dialing.
C26_SecondRegisterNoOp ==
    [][/\ \A c \in CallIds :
             (udp'.reg[c] # udp.reg[c] /\ outbound_sockets[c] # NoSocket) =>
                 /\ outbound_sockets' = outbound_sockets
                 /\ chunk_counters' = chunk_counters
                 /\ sockets' = sockets
       /\ \A t \in Dialers :
             (/\ pc[t] = "conn_check" /\ pc'[t] # "conn_check"
              /\ outbound_sockets[ThreadCall(t)] # NoSocket) =>
                 /\ pc'[t] = "done"
                 /\ outbound_sockets' = outbound_sockets
                 /\ chunk_counters' = chunk_counters
                 /\ sockets' = sockets]_vars

\* both REGISTER threads have ended; the call still has the connection the
\* first one dialed, with the audio frame sent on it counted
C26_Witness ==
    /\ udp.reg[101] = 2
    /\ pc[Dialer(101, 1)] = "done" /\ pc[Dialer(101, 2)] = "done"
    /\ Len(sockets) = 1 /\ sockets[1].by = Dialer(101, 1) /\ sockets[1].st = "open"
    /\ outbound_sockets[101] = 1 /\ chunk_counters[101] = 1

\* C27: a datagram that is neither REGISTER:<callID> nor BYE:<callID> with
\* a callID of at least one character (the bytes do not decode, the prefix
\* is another one, or nothing follows the prefix) is dropped: no record is
\* added or removed, no connector thread is started, no port is dialed and
\* no connection is made or closed.
WellFormedDatagram(r) ==
    /\ r.utf8
    /\ \/ startswith(Message(r), REGISTER_PREFIX) /\ Len(Message(r)) > Len(REGISTER_PREFIX)
       \/ startswith(Message(r), BYE_PREFIX) /\ Len(Message(r)) > Len(BYE_PREFIX)
DatagramDropped(r) ==
    /\ r.registered_calls = r.before
    /\ r.outbound_sockets = r.before
    /\ r.threads = 0 /\ r.port = 0 /\ r.closed = {}
C27_MalformedDropped ==
    (stream.pc # "none" /\ ~WellFormedDatagram(stream)) => DatagramDropped(stream)

\* C27, for the datagrams that do not decode or carry neither prefix
C27_OtherPrefixDropped ==
    (/\ stream.pc # "none"
     /\ \/ ~stream.utf8
        \/ /\ ~startswith(Message(stream), REGISTER_PREFIX)
           /\ ~startswith(Message(stream), BYE_PREFIX)) =>
        /\ DatagramDropped(stream)
        /\ stream.pc = "done" => stream.handled \in {"ignored", "error"}

\* C28: once a call has ended (its handler has finished after the
\* end-of-call header or an upstream disconnect, or the listener has served
\* its BYE), its connection has been closed with the end-of-call marker and
\* no connector thread of the call is running, none of registered_calls,
\* outbound_sockets and chunk_counters has an entry for the call.
CallEnded(c) ==
    \/ pc[Handler(c)] = "h_done" /\ ghost[c].exit \in {"sentinel", "disconnect"}
    \/ pc[Listener] = "l_recv" /\ udp.bye[c] > 0
ConnectorsIdle(c) ==
    \A i \in DialIds : pc[Dialer(c, i)] \in {"idle", "done"}
TornDown(c) ==
    /\ SocketsOf(c) # {}
    /\ \A i \in SocketsOf(c) :
          /\ sockets[i].st = "closed"
          /\ sockets[i].wire[Len(sockets[i].wire)] = ByeMarker
C28_NoStateAfterCallEnd ==
    \A c \in CallIds :
        (CallEnded(c) /\ TornDown(c) /\ ConnectorsIdle(c)) =>
            /\ c \notin registered_calls
            /\ outbound_sockets[c] = NoSocket
            /\ chunk_counters[c] = NoCounter

\* C28, the entry that is removed: in those states outbound_sockets has no
\* entry for the call.
C28_SocketEntryRemoved ==
    \A c \in CallIds :
        (CallEnded(c) /\ TornDown(c) /\ ConnectorsIdle(c)) =>
            outbound_sockets[c] = NoSocket

\* C29: a call has an entry in outbound_sockets only after a REGISTER
\* datagram for it was received, and no thread dials (or has dialed and is
\* about to record) a connection for a call no REGISTER was received for.
C29_ConnectionOnlyAfterRegister ==
    \A c \in CallIds :
        /\ outbound_sockets[c] # NoSocket => udp.reg[c] > 0
        /\ \A t \in Handlers \cup Dialers :
              (ThreadCall(t) = c /\ pc[t] \in {"conn_dial", "conn_install"}) =>
                  udp.reg[c] > 0

\* C29, the threads the listener starts: they dial registered calls only
C29_RegisterThreadsDialRegistered ==
    \A t \in Dialers :
        pc[t] \in {"conn_dial", "conn_install"} => udp.reg[ThreadCall(t)] > 0

\* C30: whatever is written on an outbound connection begins with the
\* framed identity of its call, the 4-byte length and then the call id;
\* audio headers, payloads and the end-of-call marker come after both, and
\* a connection outbound_sockets records has had its identity sent in full.
IdentitySent(i) ==
    /\ Len(sockets[i].wire) >= 2
    /\ sockets[i].wire[1] = HelloLength(sockets[i].call)
    /\ sockets[i].wire[2] = HelloBody(sockets[i].call)
C30_IdentityFirst ==
    /\ \A i \in DOMAIN sockets :
          LET w == sockets[i].wire IN
          /\ w # <<>> => w[1] = HelloLength(sockets[i].call)
          /\ Len(w) >= 2 => w[2] = HelloBody(sockets[i].call)
          /\ \A k \in DOMAIN w :
                w[k].kind \in {"HDR12", "PCM"} => (k > 2 /\ IdentitySent(i))
    /\ \A c \in CallIds :
          outbound_sockets[c] # NoSocket => IdentitySent(outbound_sockets[c])

\* one attempt failed in the middle of the identity and its connection
\* carries nothing else; the next one sent it in full, then a frame and the
\* end-of-call marker
C30_Witness ==
    \E i, j \in SocketsOf(101) :
        /\ sockets[i].wire = <<HelloLength(101)>> /\ sockets[i].st = "closed"
        /\ Len(sockets[j].wire) = 5
        /\ IsAudioHeader(sockets[j].wire[3])
        /\ sockets[j].wire[4].kind = "PCM"
        /\ sockets[j].wire[5] = ByeMarker

C32_RendezvousBounded ==
    dial.pc \in {"loop", "accepted"} =>
        /\ dial.attempt <= max_attempts
        /\ dial.registers <= max_attempts

\* C32, what the loop does: while the outbound processor has not connected
\* the function has not returned, whatever the number of passes made.
C32_LoopsUntilConnected ==
    dial.pc \in {"loop", "accepted"} =>
        /\ dial.pc = "accepted" <=> dial.result = "socket"
        /\ dial.peer_up_at = NeverConnects => dial.pc = "loop"

\* C33: the bytes written on an outbound connection after the identity are
\* complete audio frames, every header directly followed by a payload of
\* the length it announces and every payload directly preceded by its
\* header, ended by at most one end-of-call marker that is the last thing
\* written; in particular no marker stands between a header and its payload.
FrameAt(w, k) ==
    /\ (IsAudioHeader(w[k]) /\ k < Len(w)) =>
          (w[k + 1].kind = "PCM" /\ w[k + 1].length = w[k].length)
    /\ w[k].kind = "PCM" =>
          k > 1 /\ IsAudioHeader(w[k - 1]) /\ w[k - 1].length = w[k].length
    /\ IsMarker(w[k]) => k = Len(w)
C33_WholeFramesThenMarker ==
    \A i \in DOMAIN sockets : \A k \in DOMAIN sockets[i].wire :
        FrameAt(sockets[i].wire, k)

\* C33, the part that holds: nothing is written after an end-of-call
\* marker, so a connection carries at most one, and a payload is written
\* only directly after its own header.
C33_MarkerLast ==
    \A i \in DOMAIN sockets : \A k \in DOMAIN sockets[i].wire :
        LET w == sockets[i].wire IN
        /\ IsMarker(w[k]) => k = Len(w)
        /\ w[k].kind = "PCM" =>
              k > 1 /\ IsAudioHeader(w[k - 1]) /\ w[k - 1].length = w[k].length

\* C34: once a call has been torn down (its handler has finished, its BYE
\* has been served to the end and no later REGISTER has registered it
\* again), outbound_sockets holds no connection for the call, also while a
\* connector thread started by the earlier REGISTER is still running.
BothTeardownsDone(c) ==
    /\ pc[Handler(c)] = "h_done"
    /\ udp.bye[c] > 0
    /\ pc[Listener] = "l_recv"
    /\ c \notin registered_calls
C34_NoConnectionAfterTeardown ==
    \A c \in CallIds :
        BothTeardownsDone(c) => outbound_sockets[c] = NoSocket

\* C34, what the teardown itself leaves: right after either teardown has
\* run to its end outbound_sockets has no entry for the call; an entry seen
\* later was installed afterwards, by a connector thread.
C34_TeardownLeavesNoEntry ==
    [][\A t \in Handlers \cup {Listener} :
          (pc[t] \in {"close_acquire", "close_send"} /\ pc'[t] = AfterClose(t)) =>
              outbound_sockets'[ThreadCall(t)] = NoSocket]_vars

\* C35: the eviction after a failed send touches only the socket the send
\* failed on: every other socket keeps its state, and when outbound_sockets
\* holds another socket for the call by then, that entry stays.
Evicts(t) == pc[t] = "send_evict" /\ pc'[t] # "send_evict"
C35_EvictsOnlyFailedSocket ==
    [][\A t \in Handlers :
          Evicts(t) =>
              /\ \A i \in DOMAIN sockets :
                    i # loc[t].s => sockets'[i].st = sockets[i].st
              /\ outbound_sockets[ThreadCall(t)] # loc[t].s =>
                    outbound_sockets'[ThreadCall(t)] = outbound_sockets[ThreadCall(t)]]_vars

\* C35, the case without a replacement: when outbound_sockets still holds
\* the socket the send failed on, the eviction closes that socket, removes
\* the entry and leaves every other socket as it was.
C35_EvictsFailedSocket ==
    [][\A t \in Handlers :
          (Evicts(t) /\ outbound_sockets[ThreadCall(t)] = loc[t].s) =>
              /\ sockets'[loc[t].s].st # "open"
              /\ outbound_sockets'[ThreadCall(t)] = NoSocket
              /\ \A i \in DOMAIN sockets :
                    i # loc[t].s => sockets'[i].st = sockets[i].st]_vars

\* C36: two calls that are active at the same time under different call
\* ids are dialled on different outbound ports.
BothPortsComputed == stream.pc = "calls" /\ Len(stream.ports) = 2
C36_DistinctIdsDistinctPorts ==
    BothPortsComputed => stream.ports[1] # stream.ports[2]

\* C36, the identifiers for which it holds: two different call ids that are
\* both plain decimal numbers without a leading zero get different ports.
PlainDecimal(id) ==
    /\ \A k \in DOMAIN id : id[k] \in Digits
    /\ Len(id) > 1 => id[1] # "0"
C36_PlainDecimalDistinctPorts ==
    (BothPortsComputed /\ PlainDecimal(stream.ids[1]) /\ PlainDecimal(stream.ids[2])) =>
        stream.ports[1] # stream.ports[2]

\* C37: the streaming service writes audio for a call only on a downstream
\* connection whose first framed message was a HELLO of length 1..1024
\* equal to the call id; when the accepted peer closed early, sent a zero or
\* oversize length or sent another identifier, the accepted socket is
\* closed, the handler has no audio socket and nothing is written for the
\* call, neither audio nor marker.
AudioWritten == stream.ids # <<>> \/ stream.pc = "send_bytes" \/ stream.frames # <<>>
PeerRejected == stream.peer_hello \in {"closed_early", "bad_length", "other_identity"}
C37_AudioOnlyAfterPeerHello ==
    stream.pc \in {"accept", "recv", "pipeline", "slice", "send_bytes", "finally", "done"} =>
        /\ (AudioWritten \/ stream.audio_socket # "none") => stream.peer_hello = "identity"
        /\ PeerRejected =>
              /\ stream.client_socket = "closed"
              /\ stream.pc \in {"finally", "done"}
              /\ stream.audio_socket = "none"
              /\ ~AudioWritten /\ stream.marker = "none"
        /\ stream.peer_hello = "raised" =>
              /\ stream.client_socket = "dropped"
              /\ stream.audio_socket = "none"
              /\ ~AudioWritten
C37_Witness ==
    /\ stream.pc = "done"
    /\ stream.peer_hello = "other_identity"
    /\ stream.client_socket = "closed"
    /\ stream.registers > 1

\* C38: close_outbound_connection is idempotent. No connection ever carries
\* more than one end-of-call marker, a socket that has been closed is not
\* written or closed again, and an invocation that starts when the call's
\* connection has already been closed with the marker returns at once and
\* changes none of the service's maps and sockets.
MarkerCount(w) == Cardinality({k \in DOMAIN w : IsMarker(w[k])})
RepeatedClose(t) ==
    /\ pc[t] = "close_acquire" /\ pc'[t] # "close_acquire"
    /\ TornDown(ThreadCall(t))
C38_CloseIdempotent ==
    [][/\ \A i \in DOMAIN sockets' : MarkerCount(sockets'[i].wire) <= 1
       /\ \A i \in DOMAIN sockets :
             sockets[i].st # "open" => sockets'[i] = sockets[i]
       /\ \A t \in Handlers \cup {Listener} :
             RepeatedClose(t) =>
                 /\ pc'[t] = AfterClose(t)
                 /\ UNCHANGED <<registered_calls, outbound_sockets, chunk_counters,
                                sockets, lock>>]_vars
C38_Witness ==
    /\ pc[Handler(101)] = "h_done" /\ ghost[101].exit = "sentinel"
    /\ pc[Listener] = "l_recv" /\ udp.bye[101] = 1
    /\ TornDown(101)
    /\ outbound_sockets[101] = NoSocket
    /\ \E i \in SocketsOf(101) : MarkerCount(sockets[i].wire) = 1

=============================================================================
